---- MODULE Spec2Model ----
(***************************************************************************)
(* A model of the layer / optimizer engine of nano_keras                   *)
(* (src/nano_keras/layers.py, src/nano_keras/layers/Layer.py,              *)
(* src/nano_keras/optimizers/AdaMax.py).                                   *)
(*                                                                         *)
(* Arrays are sequences (1-D), sequences of rows (2-D) and sequences of    *)
(* rows of channel vectors (3-D), indexed from 1 where numpy indexes from  *)
(* 0.  Every layer object is one record-valued variable whose fields keep  *)
(* the attribute names of the source.                                      *)
(***************************************************************************)
EXTENDS Integers, Sequences, FiniteSets, TLC

VARIABLES
    pool1,   \* a MaxPool1D layer, its predecessor's shape and its forward call frame
    pool2,   \* a MaxPool2D layer, its predecessor's shape and its last call
    conv2,   \* a Conv2D layer, its predecessor's shape and its last call
    conv1,   \* a Conv1D layer, its predecessor's shape and its last call
    opt,     \* an AdaMax optimizer and the frame of its apply_gradients call
    net,     \* an ordered list of layers and the outcome of the last call on it
    train,   \* a call of NN.train: its loop counters and the backward calls of the batch
    blayer,  \* a layer with per-batch buffers and a batch cursor
    pair     \* two AdaMax optimizers that are fed the same calls

vars == <<pool1, pool2, conv2, conv1, opt, net, train, blayer, pair>>

-----------------------------------------------------------------------------
(* Bounds of the model.                                                    *)

MaxLen == 4        \* longest 1-D input enumerated exhaustively
MaxVal == 2        \* largest element of an exhaustively enumerated input
MaxKernel == 3     \* largest kernel_size / pool_size
MaxStride == 3     \* largest strides
MaxDim == 4        \* largest height / width of a 2-D or 3-D input
MaxShift == 1      \* largest row / column offset of the input pattern
MaxChannels == 2   \* largest number of channels of a 3-D input
MaxPool == 2       \* largest pool_size / kernel_size per axis of a 2-D layer
MaxStride2 == 2    \* largest strides per axis of a 2-D layer
MaxFilters == 2    \* largest number of filters
MaxRows == 2       \* largest first axis of a weight matrix handed to the optimizer
MaxCols == 3       \* largest second axis of a weight matrix handed to the optimizer
MaxCalls == 2      \* number of apply_gradients calls followed on one optimizer

(* Marker of an element of np.empty() that no statement has written yet.   *)
Uninit == -1
(* Marker of an attribute that has not been assigned yet.                  *)
NoValue == -2

-----------------------------------------------------------------------------
(* numpy / math helpers.                                                   *)

\* math.ceil(a / b) for integers a and b > 0
CeilDiv(a, b) == -((-a) \div b)

\* a // b, Python floor division, for b > 0
FloorDiv(a, b) == a \div b

RECURSIVE SeqMax(_)
\* np.max of a non-empty 1-D array
SeqMax(s) ==
    IF Len(s) = 1 THEN s[1]
    ELSE LET m == SeqMax(Tail(s)) IN IF s[1] >= m THEN s[1] ELSE m

\* x[a:b] of a 1-D array (Python slice, 0-based, clipped to the array)
PySlice(x, a, b) ==
    LET lo == IF a > Len(x) THEN Len(x) ELSE a
        hi == IF b > Len(x) THEN Len(x) ELSE b
    IN  IF hi <= lo THEN << >> ELSE SubSeq(x, lo + 1, hi)

\* range(0, n, step) as the sequence of its values
PyRange(n, step) == [q \in 1..CeilDiv(n, step) |-> (q - 1) * step]

\* a sequence of n copies of v
Fill(n, v) == [q \in 1..n |-> v]

\* all sequences over S of length lo..hi
SeqsOf(S, lo, hi) == UNION {[1..n -> S] : n \in lo..hi}

-----------------------------------------------------------------------------
(* MaxPool1D                                                               *)

\* the input of the docstring of MaxPool1D.__call__
DocInput1D == <<1, 5, 3, 6, 7, 4>>

Inputs1D == SeqsOf(0..MaxVal, 1, MaxLen) \cup {DocInput1D}

\* a slip in the shape formula: floor where the code takes the ceiling
Mp1OutputShapeValueFloor(input_shape, kernel_size, strides) ==
    FloorDiv(input_shape - kernel_size + 1, strides)

\* MaxPool1D.output_shape: ceil((input_shape - kernel_size + 1) / strides)
Mp1OutputShapeValue(input_shape, kernel_size, strides) ==
    CeilDiv(input_shape - kernel_size + 1, strides)

\* the size of the array MaxPool1D.__call__ allocates
Mp1OutputSize(xsize, kernel_size, strides) ==
    CeilDiv(xsize - kernel_size + 1, strides)

\* the loop of MaxPool1D.__call__ stops: the range is exhausted or the break fires
Mp1LoopEnds(i, xsize, kernel_size) ==
    \/ i >= xsize
    \/ i + kernel_size > xsize

\* a slip in the window: the slice starts at 0 instead of i
Mp1WindowFromStart(x, i, kernel_size) == SeqMax(PySlice(x, 0, i + kernel_size))

\* the value one loop iteration stores: np.max(x[i:i + kernel_size])
Mp1Window(x, i, kernel_size) == SeqMax(PySlice(x, i, i + kernel_size))

InitPool1 ==
    \E x \in Inputs1D, k \in 1..MaxKernel, s \in 1..MaxStride :
        /\ Len(x) >= k
        /\ pool1 = [ kernel_size |-> k, strides |-> s,
                     input_shape |-> Len(x),        \* layers[index-1].output_shape
                     output_shape_value |-> NoValue,
                     x |-> x, pc |-> "idle",
                     output |-> << >>, writes |-> << >>,
                     i |-> 0, currentIndex |-> 0 ]

\* MaxPool1D.output_shape(layers, index)
Mp1OutputShape ==
    /\ pool1.pc \in {"idle", "done"}
    /\ pool1.output_shape_value = NoValue
    /\ pool1' = [pool1 EXCEPT !.output_shape_value =
                    Mp1OutputShapeValue(pool1.input_shape, pool1.kernel_size, pool1.strides)]
    /\ UNCHANGED <<pool2, conv2, conv1, opt, net, train, blayer, pair>>

\* MaxPool1D.__call__(x), up to the loop: allocate the output
Mp1CallEnter ==
    /\ pool1.pc = "idle"
    /\ LET n == Mp1OutputSize(Len(pool1.x), pool1.kernel_size, pool1.strides)
       IN  pool1' = [pool1 EXCEPT !.pc = "loop",
                                  !.output = Fill(n, Uninit),
                                  !.writes = Fill(n, 0),
                                  !.i = 0, !.currentIndex = 0]
    /\ UNCHANGED <<pool2, conv2, conv1, opt, net, train, blayer, pair>>

\* one iteration of the loop of MaxPool1D.__call__, or its exit and the return
Mp1LoopIter ==
    /\ pool1.pc = "loop"
    /\ IF Mp1LoopEnds(pool1.i, Len(pool1.x), pool1.kernel_size)
       THEN pool1' = [pool1 EXCEPT !.pc = "done"]
       ELSE IF pool1.currentIndex >= Len(pool1.output)
            THEN pool1' = [pool1 EXCEPT !.pc = "IndexError"]
            ELSE pool1' = [pool1 EXCEPT
                    !.output[pool1.currentIndex + 1] =
                        Mp1Window(pool1.x, pool1.i, pool1.kernel_size),
                    !.writes[pool1.currentIndex + 1] = @ + 1,
                    !.currentIndex = @ + 1,
                    !.i = @ + pool1.strides]
    /\ UNCHANGED <<pool2, conv2, conv1, opt, net, train, blayer, pair>>

InitPool1Idle == pool1 = [pc |-> "unused"]

InitPool2Idle == pool2 = [pc |-> "unused"]

InitConv2Idle == conv2 = [pc |-> "unused"]

InitConv1Idle == conv1 = [pc |-> "unused"]

InitOptIdle == opt = [pc |-> "unused"]

InitNetIdle == net = [pc |-> "unused"]

InitTrainIdle == train = [pc |-> "unused"]

InitBLayerIdle == blayer = [pc |-> "unused"]

InitPairIdle == pair = [pc |-> "unused"]

\* the machines that stand apart from the layer and optimizer models above
InitOthersIdle == InitTrainIdle /\ InitBLayerIdle /\ InitPairIdle

InitMaxPool1D ==
    InitPool1 /\ InitPool2Idle /\ InitConv2Idle /\ InitConv1Idle /\ InitOptIdle /\ InitNetIdle /\ InitOthersIdle

NextMaxPool1D == Mp1OutputShape \/ Mp1CallEnter \/ Mp1LoopIter

SpecMaxPool1D == InitMaxPool1D /\ [][NextMaxPool1D]_vars

\* C1: for n >= k >= 1 and s >= 1 the value MaxPool1D.output_shape returns for a
\* predecessor of shape n is the length of the array one forward call returns on
\* an input of length n; the loop writes every element of that array exactly once
\* and never indexes past its end.
C1_MaxPool1DShapeRoundTrip ==
    /\ pool1.pc # "IndexError"
    /\ \A j \in DOMAIN pool1.writes : pool1.writes[j] <= 1
    /\ pool1.pc = "done" =>
          /\ \A j \in DOMAIN pool1.writes : pool1.writes[j] = 1
          /\ \A j \in DOMAIN pool1.output : pool1.output[j] # Uninit
          /\ pool1.output_shape_value # NoValue =>
                pool1.output_shape_value = Len(pool1.output)

\* C1 witness: a finished forward call with stride > 1 and more than one output
\* element, on a layer whose output_shape has been computed
C1_Witness ==
    /\ pool1.pc = "done"
    /\ pool1.output_shape_value # NoValue
    /\ pool1.strides > 1
    /\ pool1.kernel_size > 1
    /\ Len(pool1.output) > 1

\* v is the maximum of x[lo .. hi] (1-based, inclusive)
IsMaxOfRange(v, x, lo, hi) ==
    /\ \E q \in lo..hi : x[q] = v
    /\ \A q \in lo..hi : x[q] <= v

\* C4: for n >= k, output element j (0 <= j <= floor((n-k)/s)) of MaxPool1D forward
\* is the maximum of x[j*s .. j*s + k - 1]; the docstring input [1,5,3,6,7,4] with
\* kernel 2 and stride 2 yields [5,6,7].
C4_MaxPool1DWindowMaxima ==
    pool1.pc = "done" =>
        LET n == Len(pool1.x)
            k == pool1.kernel_size
            s == pool1.strides
        IN  /\ Len(pool1.output) = FloorDiv(n - k, s) + 1
            /\ \A j \in 0..FloorDiv(n - k, s) :
                    IsMaxOfRange(pool1.output[j + 1], pool1.x, j * s + 1, j * s + k)
            /\ (pool1.x = DocInput1D /\ k = 2 /\ s = 2) => pool1.output = <<5, 6, 7>>

\* C4 witness: the docstring example has been computed
C4_Witness ==
    /\ pool1.pc = "done"
    /\ pool1.x = DocInput1D
    /\ pool1.kernel_size = 2
    /\ pool1.strides = 2

-----------------------------------------------------------------------------
(* 2-D and 3-D inputs.                                                     *)
(* A 2-D array is a sequence of rows; a 3-D array [H, W, C] is a sequence  *)
(* of rows of channel vectors.  An array travels with its rank:            *)
(* [ndim |-> 2 or 3, a |-> the nested sequence].                           *)

\* the matrix of the docstring of MaxPool2D.__call__
DocMatrix == << <<2, 3, 5, 9>>, <<4, 5, 2, 6>>, <<7, 4, 6, 5>>, <<8, 3, 4, 1>> >>

\* the docstring matrix repeated periodically, read at row r + dr and column c + dc
\* (0-based), and mirrored in value when flip is set
PatternAt(r, c, dr, dc, flip) ==
    LET v == DocMatrix[((r + dr) % 4) + 1][((c + dc) % 4) + 1]
    IN  IF flip THEN 9 - v ELSE v

\* variant v of the pattern: shifted by v rows and 2 * v columns
Input2D(h, w, v, flip) ==
    [ndim |-> 2,
     a |-> [r \in 1..h |-> [c \in 1..w |-> PatternAt(r - 1, c - 1, v, 2 * v, flip)]]]

\* channel k of a 3-D input is the pattern shifted by k rows and 2 * k columns more
Input3D(h, w, ch, v) ==
    [ndim |-> 3,
     a |-> [r \in 1..h |-> [c \in 1..w |-> [k \in 1..ch |->
                PatternAt(r - 1 + (k - 1), c - 1 + 2 * (k - 1), v, 2 * v, FALSE)]]]]

\* the inputs the 2-D layers are run on: 2-D matrices and 3-D tensors
Inputs2D ==
    {Input2D(h, w, v, flip) :
        h \in 1..MaxDim, w \in 1..MaxDim, v \in 0..MaxShift, flip \in BOOLEAN}

Inputs3D ==
    UNION {{Input3D(h, w, ch, v) : h \in 1..MaxDim, w \in 1..MaxDim, v \in 0..MaxShift} :
              ch \in 1..MaxChannels}

\* the 3-D inputs of the convolution: one pattern per shape
ConvInputs == {Input3D(h, w, ch, 0) : h \in 1..MaxDim, w \in 1..MaxDim, ch \in 1..MaxChannels}

\* x.shape
ShapeOf(x) ==
    IF x.ndim = 2 THEN <<Len(x.a), Len(x.a[1])>>
    ELSE <<Len(x.a), Len(x.a[1]), Len(x.a[1][1])>>

\* the maximum of a non-empty finite set of integers
SetMax(S) == CHOOSE v \in S : \A u \in S : u <= v

-----------------------------------------------------------------------------
(* MaxPool2D                                                               *)

\* a slip in the shape formula: ceiling where the code takes floor(...) + 1
Mp2OutputShapeValueCeil(input_shape, pool_size, strides) ==
    LET hw == [q \in 1..2 |-> CeilDiv(input_shape[q] - pool_size[q], strides[q])]
    IN  IF Len(input_shape) > 2 THEN Append(hw, input_shape[Len(input_shape)]) ELSE hw

\* MaxPool2D.output_shape: floor((input_shape[i] - pool_size[i]) / strides[i]) + 1 for
\* i in range(2), followed by input_shape[-1] when the predecessor's shape has a third axis
Mp2OutputShapeValue(input_shape, pool_size, strides) ==
    LET hw == [q \in 1..2 |-> FloorDiv(input_shape[q] - pool_size[q], strides[q]) + 1]
    IN  IF Len(input_shape) > 2 THEN Append(hw, input_shape[Len(input_shape)]) ELSE hw

\* a slip in the window: only its first row is read, x[i_start, j_start:j_end]
Mp2WindowMaxFirstRow(x, i_start, i_end, j_start, j_end) ==
    IF x.ndim = 2
    THEN SetMax({x.a[i_start + 1][c] : c \in (j_start + 1)..j_end})
    ELSE SetMax(UNION {{x.a[i_start + 1][c][k] : k \in 1..Len(x.a[1][1])} :
                          c \in (j_start + 1)..j_end})

\* np.max(x[i_start:i_end, j_start:j_end]): the maximum over the whole slice, which
\* for a 3-D input spans every channel
Mp2WindowMax(x, i_start, i_end, j_start, j_end) ==
    IF x.ndim = 2
    THEN SetMax({x.a[r][c] : r \in (i_start + 1)..i_end, c \in (j_start + 1)..j_end})
    ELSE SetMax(UNION {{x.a[r][c][k] : k \in 1..Len(x.a[1][1])} :
                          r \in (i_start + 1)..i_end, c \in (j_start + 1)..j_end})

\* the array MaxPool2D.__call__ returns
Mp2Forward(x, pool_size, strides) ==
    LET height == FloorDiv(Len(x.a) - pool_size[1], strides[1]) + 1
        width  == FloorDiv(Len(x.a[1]) - pool_size[2], strides[2]) + 1
        win(i, j) ==
            Mp2WindowMax(x, (i - 1) * strides[1], (i - 1) * strides[1] + pool_size[1],
                            (j - 1) * strides[2], (j - 1) * strides[2] + pool_size[2])
    IN  IF x.ndim = 2
        THEN [ndim |-> 2, a |-> [i \in 1..height |-> [j \in 1..width |-> win(i, j)]]]
        ELSE LET ch == Len(x.a[1][1])
                 \* output[i, j] = np.max(...) stores the scalar in every channel
                 looped == [i \in 1..height |-> [j \in 1..width |->
                               [k \in 1..ch |-> win(i, j)]]]
                 \* output[-1, -1, :] = x[-1, -1, :]
                 last == x.a[Len(x.a)][Len(x.a[1])]
             IN  [ndim |-> 3,
                  a |-> [looped EXCEPT ![height][width] = last]]

\* a MaxPool2D layer placed after a layer whose output is x
InitPool2On(x) ==
    \E p0 \in 1..MaxPool, p1 \in 1..MaxPool,
       s0 \in 1..MaxStride2, s1 \in 1..MaxStride2 :
        /\ Len(x.a) >= p0
        /\ Len(x.a[1]) >= p1
        /\ pool2 = [ pool_size |-> <<p0, p1>>, strides |-> <<s0, s1>>,
                     input_shape |-> ShapeOf(x),    \* layers[index-1].output_shape
                     output_shape_value |-> << >>,  \* not assigned yet
                     x |-> x, pc |-> "new",
                     inputs |-> [ndim |-> 0, a |-> << >>],
                     output |-> [ndim |-> 0, a |-> << >>],
                     \* the outcome of the last backpropagate call
                     bp |-> [gradient |-> << >>, raised |-> "none", returned |-> << >>] ]

InitPool2 ==
    \/ \E x \in Inputs2D : InitPool2On(x)
    \/ \E x \in Inputs3D : InitPool2On(x)

\* MaxPool2D.output_shape(layers, index), called when the model is compiled
Mp2OutputShape ==
    /\ pool2.pc = "new"
    /\ pool2' = [pool2 EXCEPT !.pc = "idle", !.output_shape_value =
                    Mp2OutputShapeValue(pool2.input_shape, pool2.pool_size, pool2.strides)]
    /\ UNCHANGED <<pool1, conv2, conv1, opt, net, train, blayer, pair>>

\* MaxPool2D.__call__(x)
Mp2Call ==
    /\ pool2.pc = "idle"
    /\ pool2' = [pool2 EXCEPT !.pc = "done",
                              !.inputs = pool2.x,
                              !.output = Mp2Forward(pool2.x, pool2.pool_size, pool2.strides)]
    /\ UNCHANGED <<pool1, conv2, conv1, opt, net, train, blayer, pair>>

-----------------------------------------------------------------------------
(* Conv2D                                                                  *)

\* np.arange(n)
Arange(n) == [q \in 1..n |-> q - 1]

\* np.repeat(a, n): every element n times in a row
Repeat(a, n) == [q \in 1..(Len(a) * n) |-> a[((q - 1) \div n) + 1]]

\* np.tile(a, n): the whole array n times
Tile(a, n) == [q \in 1..(Len(a) * n) |-> a[((q - 1) % Len(a)) + 1]]

\* c * a for a number c and a 1-D array a
Scaled(c, a) == [q \in 1..Len(a) |-> c * a[q]]

\* the sum of a sequence of integers
RECURSIVE SeqSum(_)
SeqSum(s) == IF s = << >> THEN 0 ELSE s[1] + SeqSum(Tail(s))

\* np.dot of two matrices (sequences of rows)
MatMul(A, B) ==
    [r \in 1..Len(A) |-> [c \in 1..Len(B[1]) |->
        SeqSum([q \in 1..Len(B) |-> A[r][q] * B[q][c]])]]

\* the activation of the layer (the default "relu"), applied to one number
Activation(v) == IF v > 0 THEN v ELSE 0

\* a 4-D weight tensor [kh, kw, channels, filters] read in C order
Flat4(W) ==
    LET kh == Len(W)
        kw == Len(W[1])
        ch == Len(W[1][1])
        nf == Len(W[1][1][1])
    IN  [q \in 1..(kh * kw * ch * nf) |->
            W[((q - 1) \div (kw * ch * nf)) + 1]
             [(((q - 1) \div (ch * nf)) % kw) + 1]
             [(((q - 1) \div nf) % ch) + 1]
             [((q - 1) % nf) + 1]]

\* self.weights.reshape(self.number_of_filters, -1)
WeightsCol(W, number_of_filters) ==
    LET flat == Flat4(W)
        per  == Len(flat) \div number_of_filters
    IN  [f \in 1..number_of_filters |-> [q \in 1..per |-> flat[(f - 1) * per + q]]]

\* Conv2D.im2col(x): the patch matrix x[i, j, k]
Im2col(x, kernel_size, strides) ==
    LET height   == FloorDiv(Len(x.a) - kernel_size[1], strides[1]) + 1
        width    == FloorDiv(Len(x.a[1]) - kernel_size[2], strides[2]) + 1
        channels == Len(x.a[1][1])
        i0 == Tile(Repeat(Arange(kernel_size[1]), kernel_size[2]), channels)
        i1 == Scaled(strides[1], Repeat(Arange(height), width))
        j0 == Tile(Arange(kernel_size[2]), kernel_size[1] * channels)
        j1 == Scaled(strides[2], Tile(Arange(width), height))
        k  == Repeat(Arange(channels), kernel_size[1] * kernel_size[2])
    IN  [q \in 1..Len(i0) |-> [p \in 1..Len(i1) |->
            x.a[i0[q] + i1[p] + 1][j0[q] + j1[p] + 1][k[q] + 1]]]

\* the pre-activation array of Conv2D.__call__: np.dot(weights_col, im2col(x)),
\* reshaped to (filters, height, width) and transposed to (height, width, filters)
Conv2DWeightedSum(x, W, number_of_filters, kernel_size, strides) ==
    LET height == FloorDiv(Len(x.a) - kernel_size[1], strides[1]) + 1
        width  == FloorDiv(Len(x.a[1]) - kernel_size[2], strides[2]) + 1
        prod   == MatMul(WeightsCol(W, number_of_filters), Im2col(x, kernel_size, strides))
    IN  [ndim |-> 3,
         a |-> [i \in 1..height |-> [j \in 1..width |-> [f \in 1..number_of_filters |->
                    prod[f][(i - 1) * width + j]]]]]

\* self.activation.compute_loss(weighted_sum), elementwise
Activate3D(t) ==
    [ndim |-> 3,
     a |-> [i \in 1..Len(t.a) |-> [j \in 1..Len(t.a[1]) |-> [f \in 1..Len(t.a[1][1]) |->
                Activation(t.a[i][j][f])]]]]

\* a slip in the shape formula: the stride of the first axis is used for both axes
Conv2DOutputShapeValueOneStride(input_shape, kernel_size, strides, number_of_filters) ==
    << FloorDiv(input_shape[1] - kernel_size[1], strides[1]) + 1,
       FloorDiv(input_shape[2] - kernel_size[2], strides[1]) + 1,
       number_of_filters >>

\* Conv2D.output_shape: (height, width, number_of_filters)
Conv2DOutputShapeValue(input_shape, kernel_size, strides, number_of_filters) ==
    << FloorDiv(input_shape[1] - kernel_size[1], strides[1]) + 1,
       FloorDiv(input_shape[2] - kernel_size[2], strides[2]) + 1,
       number_of_filters >>

\* the weight tensors the layer is run with: [kh, kw, channels, filters] of small
\* integers that differ from position to position
Weights4D(kh, kw, ch, nf) ==
    [a \in 1..kh |-> [b \in 1..kw |-> [c \in 1..ch |-> [f \in 1..nf |->
        ((3 * a + 5 * b + 7 * c + 11 * f) % 5) - 2]]]]

InitConv2 ==
    \E x \in ConvInputs, k0 \in 1..MaxPool, k1 \in 1..MaxPool,
       s0 \in 1..MaxStride2, s1 \in 1..MaxStride2, nf \in 1..MaxFilters :
        /\ Len(x.a) >= k0
        /\ Len(x.a[1]) >= k1
        /\ conv2 = [ number_of_filters |-> nf,
                     kernel_size |-> <<k0, k1>>, strides |-> <<s0, s1>>,
                     \* Conv2D.generate_weights: (kh, kw, input_shape[-1], filters)
                     weights |-> Weights4D(k0, k1, Len(x.a[1][1]), nf),
                     prev_shape |-> ShapeOf(x),     \* layers[index-1].output_shape
                     input_shape |-> << >>,         \* not assigned yet
                     output_shape_value |-> << >>,  \* not assigned yet
                     x |-> x, pc |-> "new",
                     inputs |-> [ndim |-> 0, a |-> << >>],
                     outputs |-> << >> ]

\* Conv2D.output_shape(layers, index), called when the model is compiled
Conv2DOutputShape ==
    /\ conv2.pc = "new"
    /\ conv2' = [conv2 EXCEPT
                    !.pc = "idle",
                    !.input_shape = conv2.prev_shape,
                    !.output_shape_value =
                        Conv2DOutputShapeValue(conv2.prev_shape, conv2.kernel_size,
                                               conv2.strides, conv2.number_of_filters)]
    /\ UNCHANGED <<pool1, pool2, conv1, opt, net, train, blayer, pair>>

\* Conv2D.__call__(x)
Conv2DCall ==
    /\ conv2.pc = "idle"
    /\ LET weighted_sum == Conv2DWeightedSum(conv2.x, conv2.weights,
                               conv2.number_of_filters, conv2.kernel_size, conv2.strides)
           output == Activate3D(weighted_sum)
       IN  conv2' = [conv2 EXCEPT !.pc = "done",
                                  !.inputs = conv2.x,
                                  !.outputs = <<output, weighted_sum>>]
    /\ UNCHANGED <<pool1, pool2, conv1, opt, net, train, blayer, pair>>

\* the convolution written as nested loops: the sum over a < kh, b < kw, c < C of
\* x[i*s0 + a, j*s1 + b, c] * W[a, b, c, f], the indices counted from 0
DirectConvolution(x, W, strides, i, j, f) ==
    SeqSum([q \in 1..(Len(W) * Len(W[1]) * Len(W[1][1])) |->
        LET a == (q - 1) \div (Len(W[1]) * Len(W[1][1]))
            b == ((q - 1) \div Len(W[1][1])) % Len(W[1])
            c == (q - 1) % Len(W[1][1])
        IN  x.a[i * strides[1] + a + 1][j * strides[2] + b + 1][c + 1]
            * W[a + 1][b + 1][c + 1][f + 1]])

\* the layers of the floor-formula claims: one MaxPool2D or one Conv2D
InitShape2D ==
    /\ InitOthersIdle
    /\ InitPool1Idle
    /\ InitConv1Idle
    /\ InitOptIdle
    /\ InitNetIdle
    /\ \/ InitPool2 /\ InitConv2Idle
       \/ InitPool2Idle /\ InitConv2

NextShape2D == Mp2OutputShape \/ Mp2Call \/ Conv2DOutputShape \/ Conv2DCall

SpecShape2D == InitShape2D /\ [][NextShape2D]_vars

\* C2: for input >= kernel >= 1 and stride >= 1 the shape Conv2D.output_shape and
\* MaxPool2D.output_shape return for a predecessor of a given shape is the shape of
\* the array one forward call of the same layer returns on an input of that shape:
\* (h, w, filters) for Conv2D, (h, w) or (h, w, channels) for MaxPool2D, with
\* h = floor((in_h - k_h)/s_h) + 1 and w = floor((in_w - k_w)/s_w) + 1.
C2_FloorShapeRoundTrip ==
    /\ pool2.pc = "done" =>
         LET h == ((pool2.input_shape[1] - pool2.pool_size[1]) \div pool2.strides[1]) + 1
             w == ((pool2.input_shape[2] - pool2.pool_size[2]) \div pool2.strides[2]) + 1
         IN  /\ ShapeOf(pool2.output) = pool2.output_shape_value
             /\ pool2.x.ndim = 2 => ShapeOf(pool2.output) = <<h, w>>
             /\ pool2.x.ndim = 3 =>
                  ShapeOf(pool2.output) = <<h, w, pool2.input_shape[3]>>
    /\ conv2.pc = "done" =>
         LET h == ((conv2.prev_shape[1] - conv2.kernel_size[1]) \div conv2.strides[1]) + 1
             w == ((conv2.prev_shape[2] - conv2.kernel_size[2]) \div conv2.strides[2]) + 1
         IN  /\ ShapeOf(conv2.outputs[1]) = conv2.output_shape_value
             /\ ShapeOf(conv2.outputs[2]) = conv2.output_shape_value
             /\ ShapeOf(conv2.outputs[1]) = <<h, w, conv2.number_of_filters>>

\* C2 witness: a Conv2D forward call has returned, with different strides on the
\* two axes, a non-square input, several filters and more than one output row
C2_Witness ==
    /\ conv2.pc = "done"
    /\ conv2.strides = <<1, 2>>
    /\ conv2.kernel_size = <<2, 1>>
    /\ conv2.prev_shape[1] # conv2.prev_shape[2]
    /\ conv2.number_of_filters > 1
    /\ Len(conv2.outputs[1].a) > 1

\* C5: MaxPool2D forward on a 2-D matrix: output[i, j] is the maximum of x over rows
\* i*s0 .. i*s0 + p0 - 1 and columns j*s1 .. j*s1 + p1 - 1; the docstring matrix with
\* pool (2,2) and stride (2,2) yields [[5,9],[8,6]].
C5_MaxPool2DWindowMaxima ==
    (pool2.pc = "done" /\ pool2.x.ndim = 2) =>
        LET x  == pool2.x.a
            p0 == pool2.pool_size[1]
            p1 == pool2.pool_size[2]
            s0 == pool2.strides[1]
            s1 == pool2.strides[2]
            out == pool2.output.a
        IN  /\ pool2.output.ndim = 2
            /\ \A i \in 0..((Len(x) - p0) \div s0), j \in 0..((Len(x[1]) - p1) \div s1) :
                 /\ \E r \in (i * s0 + 1)..(i * s0 + p0), c \in (j * s1 + 1)..(j * s1 + p1) :
                        x[r][c] = out[i + 1][j + 1]
                 /\ \A r \in (i * s0 + 1)..(i * s0 + p0), c \in (j * s1 + 1)..(j * s1 + p1) :
                        x[r][c] <= out[i + 1][j + 1]
            /\ (x = DocMatrix /\ pool2.pool_size = <<2, 2>> /\ pool2.strides = <<2, 2>>)
                 => out = << <<5, 9>>, <<8, 6>> >>

\* C5 witness: the docstring example has been computed
C5_Witness ==
    /\ pool2.pc = "done"
    /\ pool2.x.ndim = 2
    /\ pool2.x.a = DocMatrix
    /\ pool2.pool_size = <<2, 2>>
    /\ pool2.strides = <<2, 2>>

\* C22: the pre-activation array Conv2D.__call__ computes through im2col equals the
\* nested-loop convolution: at output position (i, j) and filter f it is the sum
\* over a < kh, b < kw, c < C of x[i*s0 + a, j*s1 + b, c] * W[a, b, c, f].
C22_Im2colEqualsDirect ==
    conv2.pc = "done" =>
        LET weighted_sum == conv2.outputs[2].a
        IN  \A i \in 1..Len(weighted_sum), j \in 1..Len(weighted_sum[1]),
               f \in 1..conv2.number_of_filters :
                weighted_sum[i][j][f] =
                    DirectConvolution(conv2.x, conv2.weights, conv2.strides,
                                      i - 1, j - 1, f - 1)

\* C23: MaxPool2D forward on a 3-D input: output[i, j, c] is the maximum of
\* x[r, q, c] over the rows r and columns q of window (i, j), for channel c alone,
\* at every output position, the last one included.
C23_MaxPool2DPerChannel ==
    (pool2.pc = "done" /\ pool2.x.ndim = 3) =>
        LET x  == pool2.x.a
            p0 == pool2.pool_size[1]
            p1 == pool2.pool_size[2]
            s0 == pool2.strides[1]
            s1 == pool2.strides[2]
            out == pool2.output.a
        IN  /\ pool2.output.ndim = 3
            /\ \A i \in 0..((Len(x) - p0) \div s0), j \in 0..((Len(x[1]) - p1) \div s1),
                  c \in 1..Len(x[1][1]) :
                 out[i + 1][j + 1][c] =
                    SetMax({x[r][q][c] : r \in (i * s0 + 1)..(i * s0 + p0),
                                         q \in (j * s1 + 1)..(j * s1 + p1)})

-----------------------------------------------------------------------------
(* Conv1D                                                                  *)
(* A shape as output_shape returns it is a Python int or a tuple:          *)
(* [kind |-> "int", dims |-> <<n>>] or [kind |-> "tuple", dims |-> <<...>>]. *)

IntShape(n) == [kind |-> "int", dims |-> <<n>>]

TupleShape(d) == [kind |-> "tuple", dims |-> d]

\* np.array(shape).size: 1 for an int, the number of entries for a tuple
NpArraySizeOfShape(shape) == IF shape.kind = "int" THEN 1 ELSE Len(shape.dims)

\* x.size: the number of elements of a 1-D or 2-D array
SizeOf(x) == IF x.ndim = 1 THEN Len(x.a) ELSE Len(x.a) * Len(x.a[1])

\* Conv1D.output_shape: (np.array(input_shape).size // strides, number_of_filters)
Conv1DOutputShapeValue(input_shape, strides, number_of_filters) ==
    << FloorDiv(NpArraySizeOfShape(input_shape), strides), number_of_filters >>

\* the bound of a slice clipped to an axis of length n
Clip(q, n) == IF q > n THEN n ELSE q

\* numpy accepts x[i:i+k, j:j+k] * self.weights[j]: the slice has two axes and its
\* last axis is as long as the kernel, or one of the two lengths is 1
Conv1DTermOk(x, j, kernel_size) ==
    /\ x.ndim = 2
    /\ LET c == Clip(j + kernel_size, Len(x.a[1])) - Clip(j, Len(x.a[1]))
       IN  c = kernel_size \/ c = 1 \/ kernel_size = 1

\* np.sum(x[i:i+k, j:j+k] * self.weights[j]) for a 2-D x, with numpy's broadcasting
Conv1DTerm(x, i, j, kernel_size, wj) ==
    LET r0 == Clip(i, Len(x.a))
        r1 == Clip(i + kernel_size, Len(x.a))
        c0 == Clip(j, Len(x.a[1]))
        c1 == Clip(j + kernel_size, Len(x.a[1]))
        c  == c1 - c0
        \* the product has max(c, k) columns
        ncols == IF c = kernel_size THEN c ELSE IF c = 1 THEN kernel_size ELSE c
        xcol(t) == IF c = 1 THEN c0 + 1 ELSE c0 + t
        wcol(t) == IF kernel_size = 1 THEN 1 ELSE t
    IN  SeqSum([r \in 1..(r1 - r0) |->
            SeqSum([t \in 1..ncols |-> x.a[r0 + r][xcol(t)] * wj[wcol(t)]])])

\* the positions i the loop of Conv1D.__call__ visits before its break
Conv1DVisited(xsize, kernel_size, strides) ==
    {i \in 0..(xsize - 1) : i % strides = 0 /\ i + kernel_size <= xsize}

\* the outcome of Conv1D.__call__(x): the exception raised, or the pair
\* [output, weighted_sum] stored in self.outputs
Conv1DForward(x, weights, biases, kernel_size, strides, number_of_filters) ==
    LET n == FloorDiv(SizeOf(x), strides)
        visited == Conv1DVisited(SizeOf(x), kernel_size, strides)
        F == 1..Len(weights)
    IN  IF visited # {} /\ F # {} /\ x.ndim = 1
        THEN [raised |-> "IndexError", outputs |-> << >>]
        ELSE IF visited # {} /\ \E j \in F : ~Conv1DTermOk(x, j - 1, kernel_size)
        THEN [raised |-> "ValueError", outputs |-> << >>]
        ELSE LET weighted_sum ==
                    [q \in 1..n |-> [f \in 1..number_of_filters |->
                        (IF (q - 1) * strides \in visited /\ f \in F
                         THEN Conv1DTerm(x, (q - 1) * strides, f - 1, kernel_size, weights[f])
                         ELSE 0) + biases[f]]]
                 output == [q \in 1..n |-> [f \in 1..number_of_filters |->
                                Activation(weighted_sum[q][f])]]
             IN  [raised |-> "none",
                  \* both arrays have the shape of np.zeros((x.size // strides, filters))
                  outputs |-> <<[ndim |-> 2, shape |-> <<n, number_of_filters>>, a |-> output],
                                [ndim |-> 2, shape |-> <<n, number_of_filters>>,
                                 a |-> weighted_sum]>>]

\* the weights and biases Conv1D.__init__ draws: (filters, kernel_size) and (filters,)
Weights2D(nf, k) == [f \in 1..nf |-> [t \in 1..k |-> ((3 * f + 5 * t) % 5) - 2]]

Biases1D(nf) == [f \in 1..nf |-> (f % 3) - 1]

\* a 1-D input of n elements
Input1D(n) == [ndim |-> 1, a |-> [q \in 1..n |-> PatternAt(0, q - 1, 0, 0, FALSE)]]

\* a Conv1D layer placed after a layer of output shape prev_shape, and an input x
\* of that shape
InitConv1On(x, prev_shape) ==
    \E k \in 1..MaxPool, st \in 1..MaxStride2, nf \in 1..MaxFilters :
        conv1 = [ number_of_filters |-> nf, kernel_size |-> k, strides |-> st,
                  weights |-> Weights2D(nf, k), biases |-> Biases1D(nf),
                  prev_shape |-> prev_shape,      \* layers[index-1].output_shape
                  output_shape_value |-> << >>,   \* not assigned yet
                  x |-> x, pc |-> "new", raised |-> "none",
                  inputs |-> [ndim |-> 0, a |-> << >>],
                  outputs |-> << >> ]

InitConv1 ==
    \/ \E n \in 1..MaxLen : InitConv1On(Input1D(n), IntShape(n))
    \/ \E n \in 1..MaxLen : InitConv1On(Input1D(n), TupleShape(<<n>>))
    \/ \E h \in 1..MaxDim, w \in 1..MaxDim :
          InitConv1On(Input2D(h, w, 0, FALSE), TupleShape(<<h, w>>))

\* Conv1D.output_shape(layers, index), called when the model is compiled
Conv1DOutputShape ==
    /\ conv1.pc = "new"
    /\ conv1' = [conv1 EXCEPT
                    !.pc = "idle",
                    !.output_shape_value =
                        Conv1DOutputShapeValue(conv1.prev_shape, conv1.strides,
                                               conv1.number_of_filters)]
    /\ UNCHANGED <<pool1, pool2, conv2, opt, net, train, blayer, pair>>

\* Conv1D.__call__(x)
Conv1DCall ==
    /\ conv1.pc = "idle"
    /\ LET res == Conv1DForward(conv1.x, conv1.weights, conv1.biases,
                                conv1.kernel_size, conv1.strides, conv1.number_of_filters)
       IN  conv1' = [conv1 EXCEPT
                        !.pc = IF res.raised = "none" THEN "done" ELSE "raised",
                        !.raised = res.raised,
                        !.inputs = conv1.x,
                        !.outputs = res.outputs]
    /\ UNCHANGED <<pool1, pool2, conv2, opt, net, train, blayer, pair>>

InitConv1D ==
    InitPool1Idle /\ InitPool2Idle /\ InitConv2Idle /\ InitConv1 /\ InitOptIdle /\ InitNetIdle /\ InitOthersIdle

NextConv1D == Conv1DOutputShape \/ Conv1DCall

SpecConv1D == InitConv1D /\ [][NextConv1D]_vars

\* the number of elements an output shape of the predecessor describes
ElementsOfShape(shape) ==
    IF Len(shape.dims) = 1 THEN shape.dims[1] ELSE shape.dims[1] * shape.dims[2]

\* C3 (as claimed): whenever a Conv1D forward call on an input of n elements
\* returns, the shape (output_length, filters) that Conv1D.output_shape returned
\* for a predecessor whose output shape describes n elements is the shape of the
\* returned array.
C3_Conv1DShapeRoundTrip ==
    (conv1.pc = "done" /\ ElementsOfShape(conv1.prev_shape) = SizeOf(conv1.x)) =>
        conv1.output_shape_value = conv1.outputs[1].shape

-----------------------------------------------------------------------------
(* AdaMax                                                                  *)
(* A float is a fixed-point number: the integer n stands for n / Scale.    *)

Scale == 2 ^ 10

\* a * b and a / b of two floats
FMul(a, b) == (a * b) \div Scale

FDiv(a, b) == (a * Scale) \div b

\* a ** n for a float a and an int n >= 0
RECURSIVE FPow(_, _)
FPow(a, n) == IF n = 0 THEN Scale ELSE FMul(a, FPow(a, n - 1))

\* np.abs and np.maximum on one element
Abs(v) == IF v < 0 THEN -v ELSE v

Max2(a, b) == IF a >= b THEN a ELSE b

Min2(a, b) == IF a <= b THEN a ELSE b

\* the number of columns of a 2-D array (0 when it has no rows)
Cols(a) == IF Len(a) = 0 THEN 0 ELSE Len(a[1])

\* a.shape of a 2-D array and a.size
Shape2(a) == <<Len(a), Cols(a)>>

Size2(a) == Len(a) * Cols(a)

\* np.zeros of a 2-D and of a 1-D shape
Zeros2(rows, cols) == [r \in 1..rows |-> [c \in 1..cols |-> 0]]

Zeros1(n) == [q \in 1..n |-> 0]

\* Optimizer._fill_array on a 2-D array: zeros appended to every axis that is
\* shorter than target_shape, nothing removed
FillArray2(arr, target_shape) ==
    LET rows == Max2(Len(arr), target_shape[1])
        cols == Max2(Cols(arr), target_shape[2])
    IN  [r \in 1..rows |-> [c \in 1..cols |->
            IF r <= Len(arr) /\ c <= Cols(arr) THEN arr[r][c] ELSE 0]]

\* Optimizer._fill_array on a 1-D array
FillArray1(arr, n) ==
    [q \in 1..Max2(Len(arr), n) |-> IF q <= Len(arr) THEN arr[q] ELSE 0]

\* a[tuple(slices)] with slices = [slice(0, shape) for shape in target_shape]
SliceTo2(a, target_shape) ==
    [r \in 1..Min2(Len(a), target_shape[1]) |->
        [c \in 1..Min2(Cols(a), target_shape[2]) |-> a[r][c]]]

\* a slip in the slice: a[:] keeps every entry
SliceTo1Whole(a, n) == a

\* a[:n]
SliceTo1(a, n) == [q \in 1..Min2(Len(a), n) |-> a[q]]

\* a slip in the lazy allocation: the accumulators are zeroed on every call
NeedsAllocAlways(m_w) == TRUE

\* if self.m_w.size == 0
NeedsAlloc(m_w) == Size2(m_w) = 0

\* numpy can broadcast two 1-D arrays of lengths a and b together
Broadcastable1(a, b) == a = b \/ a = 1 \/ b = 1

\* element q of a 1-D array broadcast to a longer result
Bc1(a, q) == IF Len(a) = 1 THEN a[1] ELSE a[q]

\* element (r, c) of a 2-D array broadcast to a result with more rows or columns
Bc2(a, r, c) == a[IF Len(a) = 1 THEN 1 ELSE r][IF Cols(a) = 1 THEN 1 ELSE c]

\* beta1 * m + (1 - beta1) * gradient, on one element
MomentM(beta1, m, g) == FMul(beta1, m) + FMul(Scale - beta1, g)

\* a slip in the infinity norm: the gradient is taken with its sign
MomentUSigned(beta2, u, g) == Max2(FMul(beta2, u), g)

\* np.maximum(beta2 * u, np.abs(gradient)), on one element
MomentU(beta2, u, g) == Max2(FMul(beta2, u), Abs(g))

\* (learning_rate / (1 - beta1T)) * (m / (u + e)), on one element
StepOf(learning_rate, beta1T, e, m, u) ==
    FMul(FDiv(learning_rate, Scale - beta1T), FDiv(m, u + e))

\* the gradients and parameters a call is made with: arrays of the given shape
\* whose entries differ from position to position
GradW(rows, cols, sign) ==
    [r \in 1..rows |-> [c \in 1..cols |-> sign * (4 * r + c) * (Scale \div 16)]]

GradB(n, sign) == [q \in 1..n |-> sign * (q + 1) * (Scale \div 16)]

ParamW(rows, cols) == [r \in 1..rows |-> [c \in 1..cols |-> (r - c) * (Scale \div 4)]]

ParamB(n) == [q \in 1..n |-> q * (Scale \div 4)]

\* AdaMax.__init__ with learning_rate 1/4, beta1 1/2, beta2 3/4 and epsilon 1/1024
NewAdaMax(adjust_biases_shape) ==
    [ learning_rate |-> Scale \div 4, beta1 |-> Scale \div 2,
      beta2 |-> 3 * (Scale \div 4), e |-> 1,
      adjust_biases_shape |-> adjust_biases_shape,
      m_w |-> << >>, u_w |-> << >>, m_b |-> << >>, u_b |-> << >>, t |-> 0,
      pc |-> "idle", raised |-> "none",
      \* the frame of the call in progress, and what the last call returned
      weightGradients |-> << >>, biasGradients |-> << >>,
      weights |-> << >>, biases |-> << >>, beta1T |-> 0,
      \* the accumulators as the call in progress found them (history of the model)
      entry_m_w |-> << >>, entry_u_w |-> << >>, entry_b |-> 0 ]

InitOpt == \E adjust \in BOOLEAN : opt = NewAdaMax(adjust)

\* a slip in the step counter: one counter is shared by all optimizer objects
NextStepShared(t) == pair.total + 1

\* self.t += 1
NextStep(t) == t + 1

\* AdaMax.apply_gradients, lines 41-63: the step counter, the lazy allocation and
\* the resizing of the accumulators
ApplyEnterOn(o, weightGradients, biasGradients, weights, biases) ==
    LET t == NextStep(o.t)
        alloc == NeedsAlloc(o.m_w)
        m_w0 == IF alloc THEN Zeros2(Len(weights), Cols(weights)) ELSE o.m_w
        u_w0 == IF alloc THEN Zeros2(Len(weights), Cols(weights)) ELSE o.u_w
        m_b0 == IF alloc THEN Zeros1(Len(biases)) ELSE o.m_b
        u_b0 == IF alloc THEN Zeros1(Len(biases)) ELSE o.u_b
        target_shape == Shape2(weights)
    IN  [o EXCEPT
            !.t = t,
            !.beta1T = FPow(o.beta1, t),
            !.m_w = SliceTo2(FillArray2(m_w0, target_shape), target_shape),
            !.u_w = SliceTo2(FillArray2(u_w0, target_shape), target_shape),
            !.m_b = IF o.adjust_biases_shape
                    THEN SliceTo1(FillArray1(m_b0, Len(biases)), Len(biases))
                    ELSE m_b0,
            !.u_b = IF o.adjust_biases_shape
                    THEN SliceTo1(FillArray1(u_b0, Len(biases)), Len(biases))
                    ELSE u_b0,
            !.weightGradients = weightGradients, !.biasGradients = biasGradients,
            !.weights = weights, !.biases = biases,
            !.entry_m_w = o.m_w, !.entry_u_w = o.u_w, !.entry_b = Len(o.m_b),
            !.raised = "none",
            !.pc = "resized"]

\* AdaMax.apply_gradients, lines 65-76: the moment update, the in-place parameter
\* update and the return; a shape numpy cannot broadcast raises ValueError and
\* leaves what the earlier statements have assigned
ApplyUpdateOn(o) ==
    LET m_w == [r \in 1..Len(o.m_w) |-> [c \in 1..Cols(o.m_w) |->
                    MomentM(o.beta1, o.m_w[r][c], Bc2(o.weightGradients, r, c))]]
        u_w == [r \in 1..Len(o.u_w) |-> [c \in 1..Cols(o.u_w) |->
                    MomentU(o.beta2, o.u_w[r][c], Bc2(o.weightGradients, r, c))]]
        afterW == [o EXCEPT !.m_w = m_w, !.u_w = u_w]
        nb == Max2(Len(o.m_b), Len(o.biasGradients))
        m_b == [q \in 1..nb |-> MomentM(o.beta1, Bc1(o.m_b, q), Bc1(o.biasGradients, q))]
        u_b == [q \in 1..nb |-> MomentU(o.beta2, Bc1(o.u_b, q), Bc1(o.biasGradients, q))]
        weights == [r \in 1..Len(o.weights) |-> [c \in 1..Cols(o.weights) |->
                        o.weights[r][c]
                        + StepOf(o.learning_rate, o.beta1T, o.e, m_w[r][c], u_w[r][c])]]
        biases == [q \in 1..Len(o.biases) |->
                        o.biases[q]
                        + StepOf(o.learning_rate, o.beta1T, o.e, Bc1(m_b, q), Bc1(u_b, q))]
    IN  IF ~Broadcastable1(Len(o.m_b), Len(o.biasGradients))
        THEN [afterW EXCEPT !.raised = "ValueError", !.pc = "raised"]
        ELSE IF ~(nb = Len(o.biases) \/ nb = 1)
        THEN [afterW EXCEPT !.m_b = m_b, !.u_b = u_b, !.weights = weights,
                            !.raised = "ValueError", !.pc = "raised"]
        ELSE [afterW EXCEPT !.m_b = m_b, !.u_b = u_b,
                            !.weights = weights, !.biases = biases,
                            !.pc = "idle"]

\* a layer calls optimizer.apply_gradients(weightGradients, biasGradients, weights,
\* biases); the bias vector has one entry per column (Dense, Dropout) or per row
\* (Conv1D) of the weight matrix
ApplyEnter ==
    /\ opt.pc \in {"idle", "raised"}
    /\ opt.t < MaxCalls
    /\ \E rows \in 1..MaxRows, cols \in 1..MaxCols, sign \in {-1, 1} :
         \E nb \in {rows, cols} :
            opt' = ApplyEnterOn(opt, GradW(rows, cols, sign), GradB(nb, sign),
                                ParamW(rows, cols), ParamB(nb))
    /\ UNCHANGED <<pool1, pool2, conv2, conv1, net, train, blayer, pair>>

ApplyUpdate ==
    /\ opt.pc = "resized"
    /\ opt' = ApplyUpdateOn(opt)
    /\ UNCHANGED <<pool1, pool2, conv2, conv1, net, train, blayer, pair>>

InitAdaMax ==
    InitPool1Idle /\ InitPool2Idle /\ InitConv2Idle /\ InitConv1Idle /\ InitOpt /\ InitNetIdle /\ InitOthersIdle

NextAdaMax == ApplyEnter \/ ApplyUpdate

SpecAdaMax == InitAdaMax /\ [][NextAdaMax]_vars

\* the call in progress (or the last call) is not the first one on this optimizer
\* and its weights are larger than the weights of the call before
WeightShapeGrew ==
    /\ opt.t >= 2
    /\ Len(opt.weights) >= Len(opt.entry_m_w)
    /\ Cols(opt.weights) >= Cols(opt.entry_m_w)
    /\ Shape2(opt.weights) # Shape2(opt.entry_m_w)

\* before the numeric update m_w and u_w have the shape of the weights, keep the
\* entries the earlier call accumulated and are zero elsewhere
GrownAccumulatorsKept ==
    opt.pc = "resized" =>
        /\ Shape2(opt.m_w) = Shape2(opt.weights)
        /\ Shape2(opt.u_w) = Shape2(opt.weights)
        /\ \A r \in 1..Len(opt.weights), c \in 1..Cols(opt.weights) :
             IF r <= Len(opt.entry_m_w) /\ c <= Cols(opt.entry_m_w)
             THEN /\ opt.m_w[r][c] = opt.entry_m_w[r][c]
                  /\ opt.u_w[r][c] = opt.entry_u_w[r][c]
             ELSE /\ opt.m_w[r][c] = 0
                  /\ opt.u_w[r][c] = 0

EntersCall == opt.pc # "resized" /\ opt'.pc = "resized"

\* the entries two arrays have in common are equal
Kept2(old, new) ==
    \A r \in 1..Min2(Len(old), Len(new)), c \in 1..Min2(Cols(old), Cols(new)) :
        new[r][c] = old[r][c]

Kept1(old, new) == \A q \in 1..Min2(Len(old), Len(new)) : new[q] = old[q]

\* C24: the step is 0 and the four accumulators are empty at construction; the step
\* grows by exactly one when apply_gradients is entered and at no other time, and
\* the divisor 1 - beta1^step of a call is never zero; the first call allocates the
\* accumulators as zeros of the weight and bias shapes it is given, and a later
\* call keeps the values they hold instead of zeroing them again.
C24_StepAndLazyAllocation ==
    /\ opt.t = 0 /\ opt.m_w = << >> /\ opt.u_w = << >> /\ opt.m_b = << >> /\ opt.u_b = << >>
    /\ [][ /\ opt'.t = IF EntersCall THEN opt.t + 1 ELSE opt.t
           /\ EntersCall =>
                /\ opt'.beta1T = FPow(opt.beta1, opt'.t)
                /\ Scale - opt'.beta1T # 0
           /\ (EntersCall /\ opt.t = 0) =>
                /\ opt'.m_w = Zeros2(Len(opt'.weights), Cols(opt'.weights))
                /\ opt'.u_w = Zeros2(Len(opt'.weights), Cols(opt'.weights))
                /\ opt'.m_b = Zeros1(Len(opt'.biases))
                /\ opt'.u_b = Zeros1(Len(opt'.biases))
           /\ (EntersCall /\ opt.t > 0) =>
                /\ Kept2(opt.m_w, opt'.m_w) /\ Kept2(opt.u_w, opt'.u_w)
                /\ Kept1(opt.m_b, opt'.m_b) /\ Kept1(opt.u_b, opt'.u_b) ]_vars

\* C24 witness: the second call has been entered and the accumulators still hold
\* the non-zero values the first call left
C24_Witness ==
    /\ opt.pc = "resized"
    /\ opt.t = 2
    /\ opt.entry_m_w # << >>
    /\ opt.entry_m_w[1][1] # 0
    /\ opt.m_w[1][1] = opt.entry_m_w[1][1]
    /\ opt.u_w[1][1] # 0
    /\ opt.m_b[1] # 0
    /\ opt.u_b[1] # 0

\* the step taken is the numeric update of an apply_gradients call
UpdatesMoments == opt.pc = "resized" /\ opt'.pc # "resized"

\* the weight accumulators after the step are beta1*m + (1-beta1)*g and
\* max(beta2*u, |g|) of the weight gradient, entry by entry
WeightBranchUpdated ==
    /\ Shape2(opt'.m_w) = Shape2(opt.m_w)
    /\ Shape2(opt'.u_w) = Shape2(opt.u_w)
    /\ \A r \in 1..Len(opt.m_w), c \in 1..Cols(opt.m_w) :
         LET g == Bc2(opt.weightGradients, r, c)
         IN  /\ opt'.m_w[r][c] = FMul(opt.beta1, opt.m_w[r][c]) + FMul(Scale - opt.beta1, g)
             /\ opt'.u_w[r][c] = Max2(FMul(opt.beta2, opt.u_w[r][c]), Abs(g))
             /\ opt'.u_w[r][c] >= Abs(g)
             /\ Abs(g) >= 0

\* the same for the bias accumulators and the bias gradient
BiasBranchUpdated ==
    LET nb == Max2(Len(opt.m_b), Len(opt.biasGradients))
    IN  /\ Len(opt'.m_b) = nb
        /\ Len(opt'.u_b) = nb
        /\ \A q \in 1..nb :
             LET g == Bc1(opt.biasGradients, q)
             IN  /\ opt'.m_b[q] = FMul(opt.beta1, Bc1(opt.m_b, q)) + FMul(Scale - opt.beta1, g)
                 /\ opt'.u_b[q] = Max2(FMul(opt.beta2, Bc1(opt.u_b, q)), Abs(g))
                 /\ opt'.u_b[q] >= Abs(g)
                 /\ Abs(g) >= 0

-----------------------------------------------------------------------------
(* MaxPool2D.backpropagate                                                 *)

\* a slip: the raise is dropped and the statement after it, return gradient, runs
Mp2BackpropagateReturns(gradient) ==
    [gradient |-> gradient, raised |-> "none", returned |-> gradient]

\* the outcome of MaxPool2D.backpropagate(gradient, optimizer): raise Exception(
\* "MaxPool2D backpropagation is not implemented yet, ..."); nothing is returned
Mp2BackpropagateOutcome(gradient) ==
    [gradient |-> gradient, raised |-> "Exception", returned |-> << >>]

\* the gradients backpropagate is called with
Gradients == { <<Scale>>, <<-Scale, 2 * Scale>> }

\* MaxPool2D.backpropagate(gradient, optimizer)
Mp2Backpropagate ==
    /\ pool2.pc \in {"new", "idle", "done"}
    /\ \E gradient \in Gradients :
          pool2' = [pool2 EXCEPT !.bp = Mp2BackpropagateOutcome(gradient)]
    /\ UNCHANGED <<pool1, conv2, conv1, opt, net, train, blayer, pair>>

\* an optimizer that has made one update
UsedAdaMax(adjust) ==
    ApplyUpdateOn(ApplyEnterOn(NewAdaMax(adjust), GradW(2, 2, 1), GradB(2, 1),
                               ParamW(2, 2), ParamB(2)))

\* a MaxPool2D layer in a compiled model, and the optimizer of the model, fresh or used
InitMaxPool2DBackward ==
    /\ InitOthersIdle
    /\ InitPool1Idle /\ InitConv2Idle /\ InitConv1Idle /\ InitNetIdle
    /\ \/ \E h \in 1..MaxDim, w \in 1..MaxDim : InitPool2On(Input2D(h, w, 0, FALSE))
       \/ \E x \in ConvInputs : InitPool2On(x)
    /\ \E adjust \in BOOLEAN : opt \in {NewAdaMax(adjust), UsedAdaMax(adjust)}

NextMaxPool2DBackward == Mp2OutputShape \/ Mp2Call \/ Mp2Backpropagate

SpecMaxPool2DBackward == InitMaxPool2DBackward /\ [][NextMaxPool2DBackward]_vars

\* C6: MaxPool2D.backpropagate, with any gradient and optimizer and in any state of
\* the layer, raises the not-implemented error, returns no gradient and changes no
\* state of the layer (inputs, output, pool_size, strides) or of the optimizer.
C6_MaxPool2DBackwardRaises ==
    [][pool2'.bp # pool2.bp =>
          /\ pool2'.bp.raised = "Exception"
          /\ pool2'.bp.returned = << >>
          /\ pool2'.inputs = pool2.inputs
          /\ pool2'.output = pool2.output
          /\ pool2'.pool_size = pool2.pool_size
          /\ pool2'.strides = pool2.strides
          /\ pool2'.output_shape_value = pool2.output_shape_value
          /\ opt' = opt]_vars

\* C6 witness: backpropagate has raised on a layer that has run a forward pass,
\* with an optimizer that holds accumulated moments
C6_Witness ==
    /\ pool2.pc = "done"
    /\ pool2.bp.raised = "Exception"
    /\ pool2.bp.gradient = <<-Scale, 2 * Scale>>
    /\ pool2.inputs.ndim = 3
    /\ opt.t = 1

-----------------------------------------------------------------------------
(* An ordered list of layers: shape inference                               *)
(* Arrays are records [shape, data] with the data in C order; the shapes    *)
(* output_shape returns are IntShape, NpIntShape or TupleShape records.     *)

MaxLayers == 3
MaxUnits == 2

\* the deepest chain of nested output_shape calls that ends: a frame is a layer
\* position entered with a non-negative or with a negative index, and a chain that
\* repeats a frame never ends, which Python reports as RecursionError
RecursionLimit == 2 * MaxLayers + 1

\* an attribute that has not been assigned
NoShape == [kind |-> "unset", dims |-> << >>]

NoArray == [shape |-> << >>, data |-> << >>]

\* np.array([])
EmptyArray == [shape |-> <<0>>, data |-> << >>]

\* the numpy integer np.prod returns
NpIntShape(n) == [kind |-> "np.int", dims |-> <<n>>]

\* np.prod of a sequence of integers
RECURSIVE Prod(_)
Prod(d) == IF d = << >> THEN 1 ELSE Head(d) * Prod(Tail(d))

\* a slip in the drawing of the values: they come as one flat row
RandomArrayRavelled(shape, seed) ==
    [ shape |-> <<Prod(shape)>>,
      data |-> [q \in 1..Prod(shape) |-> (((q + seed) % 4) - 1) * (Scale \div 2)] ]

\* the values np.random.randn fills an array of the given shape with
RandomArray(shape, seed) ==
    [ shape |-> shape,
      data |-> [q \in 1..Prod(shape) |-> (((q + seed) % 4) - 1) * (Scale \div 2)] ]

\* np.zeros(n)
ZerosArray(n) == [shape |-> <<n>>, data |-> [q \in 1..n |-> 0]]

\* the attributes a layer object can carry; unset ones hold NoShape or NoArray
BaseLayer(kind) ==
    [ kind |-> kind, units |-> NoShape, input_shape |-> NoShape,
      target_shape |-> NoShape, kernel_size |-> << >>, strides |-> << >>,
      number_of_filters |-> 0,
      output_shape_value |-> NoShape, next_layer_shape |-> NoShape,
      original_shape |-> NoShape, dropout_rate |-> NoValue,
      weights |-> NoArray, biases |-> NoArray,
      inputs |-> NoArray, outputs |-> NoArray ]

\* Input.__init__
NewInput(input_shape) ==
    [BaseLayer("Input") EXCEPT !.input_shape = input_shape,
                               !.biases = RandomArray(input_shape.dims, 1),
                               !.weights = EmptyArray]

\* Layer.__init__, which Dense inherits
NewDense(units) ==
    [BaseLayer("Dense") EXCEPT !.units = IntShape(units),
                               !.weights = EmptyArray, !.biases = EmptyArray]

\* Flatten.__init__ sets the name and nothing else
NewFlatten == BaseLayer("Flatten")

\* Reshape.__init__
NewReshape(target_shape) ==
    [BaseLayer("Reshape") EXCEPT !.target_shape = TupleShape(target_shape)]

\* MaxPool1D.__init__
NewMaxPool1D(kernel_size, strides) ==
    [BaseLayer("MaxPool1D") EXCEPT !.kernel_size = <<kernel_size>>,
                                   !.strides = <<strides>>]

\* MaxPool2D.__init__
NewMaxPool2D(pool_size, strides) ==
    [BaseLayer("MaxPool2D") EXCEPT !.kernel_size = pool_size, !.strides = strides]

\* Conv2D.__init__
NewConv2D(filters, kernel_size, strides) ==
    [BaseLayer("Conv2D") EXCEPT !.number_of_filters = filters,
                                !.kernel_size = kernel_size, !.strides = strides,
                                !.weights = EmptyArray, !.biases = EmptyArray]

\* Dropout.__init__
NewDropout(units, dropout_rate) ==
    [BaseLayer("Dropout") EXCEPT !.units = IntShape(units),
                                 !.weights = EmptyArray, !.biases = EmptyArray,
                                 !.dropout_rate = dropout_rate]

\* Conv1D.__init__: the weights and biases are drawn in the constructor
NewConv1D(filters, kernel_size, strides) ==
    [BaseLayer("Conv1D") EXCEPT !.number_of_filters = filters,
                                !.kernel_size = <<kernel_size>>, !.strides = <<strides>>,
                                !.weights = RandomArray(<<filters, kernel_size>>, 1),
                                !.biases = RandomArray(<<filters>>, 1)]

\* a slip in the list lookup: an index past the end wraps round to the front
PyIndexWrapping(n, index) == (index % n) + 1

\* layers[index] of a Python list of n entries: the position counted from 1, a
\* negative index counting from the end, and 0 where Python raises IndexError
PyIndex(n, index) ==
    IF index >= 0 /\ index < n THEN index + 1
    ELSE IF index < 0 /\ index >= -n THEN n + index + 1
    ELSE 0

\* the outcome of a call: what was raised, what was returned, the layers afterwards
Raise(error, layers) == [raised |-> error, value |-> NoShape, layers |-> layers]

Return(value, layers) == [raised |-> "none", value |-> value, layers |-> layers]

\* the error of input_shape[i] for i in range(2), "none" when both entries exist
SubscriptError(input_shape) ==
    IF input_shape.kind = "int" THEN "TypeError"
    ELSE IF input_shape.kind = "np.int" THEN "IndexError"
    ELSE IF Len(input_shape.dims) < 2 THEN "IndexError"
    ELSE "none"

\* layers[index].output_shape(layers, index) at the given depth of nested calls;
\* the layers are shared objects, so what a nested call assigns stays assigned
RECURSIVE OutputShape(_, _, _)
OutputShape(layers, index, depth) ==
    LET pos == PyIndex(Len(layers), index)
        self == layers[pos]
        \* layers[current_layer_index - 1].output_shape(layers, current_layer_index - 1)
        prev == OutputShape(layers, index - 1, depth + 1)
        \* layers[current_layer_index + 1].output_shape(layers, current_layer_index + 1)
        next == OutputShape(layers, index + 1, depth + 1)
    IN  IF pos = 0 THEN Raise("IndexError", layers)
        ELSE IF depth > RecursionLimit THEN Raise("RecursionError", layers)
        ELSE CASE self.kind = "Input" -> Return(self.input_shape, layers)
               [] self.kind = "Dense" -> Return(self.units, layers)
               [] self.kind = "Dropout" -> Return(self.units, layers)
               [] self.kind = "Conv1D" ->
                    IF prev.raised # "none" THEN prev
                    ELSE LET value == TupleShape(Conv1DOutputShapeValue(prev.value,
                                            self.strides[1], self.number_of_filters))
                         IN  Return(value, [prev.layers EXCEPT
                                            ![pos].output_shape_value = value])
               [] self.kind = "Flatten" ->
                    IF prev.raised # "none" THEN prev
                    ELSE LET value == NpIntShape(Prod(prev.value.dims))
                             assigned == [prev.layers EXCEPT
                                            ![pos].output_shape_value = value]
                             after == OutputShape(assigned, index + 1, depth + 1)
                         IN  IF after.raised # "none" THEN after
                             ELSE Return(value, [after.layers EXCEPT
                                            ![pos].next_layer_shape = after.value])
               [] self.kind = "Reshape" ->
                    IF next.raised # "none" THEN next
                    ELSE Return(self.target_shape, [next.layers EXCEPT
                                            ![pos].next_layer_shape = next.value])
               [] self.kind = "MaxPool1D" ->
                    IF prev.raised # "none" THEN prev
                    ELSE IF prev.value.kind = "tuple" THEN Raise("TypeError", prev.layers)
                    ELSE LET value == IntShape(Mp1OutputShapeValue(prev.value.dims[1],
                                            self.kernel_size[1], self.strides[1]))
                         IN  Return(value, [prev.layers EXCEPT
                                            ![pos].output_shape_value = value])
               [] self.kind = "MaxPool2D" ->
                    IF prev.raised # "none" THEN prev
                    ELSE IF SubscriptError(prev.value) # "none"
                    THEN Raise(SubscriptError(prev.value), prev.layers)
                    ELSE LET value == TupleShape(Mp2OutputShapeValue(prev.value.dims,
                                            self.kernel_size, self.strides))
                         IN  Return(value, [prev.layers EXCEPT
                                            ![pos].output_shape_value = value])
               [] self.kind = "Conv2D" ->
                    IF prev.raised # "none" THEN prev
                    ELSE LET assigned == [prev.layers EXCEPT
                                            ![pos].input_shape = prev.value]
                             value == TupleShape(Conv2DOutputShapeValue(prev.value.dims,
                                            self.kernel_size, self.strides,
                                            self.number_of_filters))
                         IN  IF SubscriptError(prev.value) # "none"
                             THEN Raise(SubscriptError(prev.value), assigned)
                             ELSE Return(value, [assigned EXCEPT
                                            ![pos].output_shape_value = value])

\* the layers a list is built from
InputShapes == { IntShape(MaxLen), TupleShape(<<MaxDim, MaxDim>>),
                 TupleShape(<<MaxDim, MaxDim, MaxChannels>>) }

LayerChoices ==
    { NewInput(input_shape) : input_shape \in InputShapes }
    \cup { NewDense(units) : units \in 1..MaxUnits }
    \cup { NewFlatten, NewReshape(<<MaxLen, 1>>), NewMaxPool1D(2, 2),
           NewMaxPool2D(<<2, 2>>, <<2, 2>>), NewConv2D(1, <<2, 2>>, <<1, 1>>),
           NewConv1D(1, 2, 1) }

\* the lists of one to MaxLayers layers
LayerLists == UNION { [1..n -> LayerChoices] : n \in 1..MaxLayers }

\* no call has been made on the list
NoCall == [op |-> "none", index |-> 0, key |-> "", raised |-> "none", value |-> NoShape]

\* x is the activation the forward pass has reached, gradient the gradient the
\* backward pass has reached, incoming the gradient the last backpropagate call was
\* given and before the layers as that call found them
NewNet(layers) ==
    [ pc |-> "built", layers |-> layers, call |-> NoCall, before |-> layers,
      x |-> NoArray, gradient |-> NoArray, incoming |-> NoArray ]

\* layers[index].output_shape(layers, index) called on a freshly built list
NetOutputShape ==
    /\ net.pc = "built"
    /\ \E index \in 0..(Len(net.layers) - 1) :
          LET r == OutputShape(net.layers, index, 1)
          IN  net' = [net EXCEPT !.pc = "called", !.layers = r.layers,
                                 !.before = net.layers,
                                 !.call = [op |-> "output_shape", index |-> index,
                                           key |-> "", raised |-> r.raised,
                                           value |-> r.value]]
    /\ UNCHANGED <<pool1, pool2, conv2, conv1, opt, train, blayer, pair>>

InitShapeChain ==
    /\ InitOthersIdle
    /\ InitPool1Idle /\ InitPool2Idle /\ InitConv2Idle /\ InitConv1Idle /\ InitOptIdle
    /\ \E layers \in LayerLists : net = NewNet(layers)

NextShapeChain == NetOutputShape

SpecShapeChain == InitShapeChain /\ [][NextShapeChain]_vars

\* the last call was output_shape on the last layer of the list
CalledOnLastLayer ==
    /\ net.pc = "called"
    /\ net.call.op = "output_shape"
    /\ net.call.index = Len(net.layers) - 1

\* C9: output_shape called on the last layer of a list, that layer being a Flatten
\* or a Reshape, ends in an error and returns no shape, whatever the length of the
\* list and whatever the layers before it.
C9_LastFlattenOrReshapeFails ==
    (CalledOnLastLayer /\ net.layers[Len(net.layers)].kind \in {"Flatten", "Reshape"})
        => (net.call.raised # "none" /\ net.call.value = NoShape)

\* C9 witness: a Flatten that ends a list of three layers has resolved its
\* predecessor's shape and then found no successor to query
C9_Witness ==
    /\ CalledOnLastLayer
    /\ Len(net.layers) = 3
    /\ net.layers[3].kind = "Flatten"
    /\ net.layers[2].kind = "MaxPool2D"
    /\ net.layers[3].output_shape_value # NoShape
    /\ net.call.raised = "IndexError"

\* C26: on a list whose first layer is an Input and whose last layer is neither a
\* Flatten nor a Reshape, output_shape called on any index comes to an end by
\* itself, returning a shape or raising: the queries of neighbours never form a
\* chain without end.
C26_ShapeInferenceTerminates ==
    ( /\ net.pc = "called"
      /\ net.call.op = "output_shape"
      /\ net.layers[1].kind = "Input"
      /\ net.layers[Len(net.layers)].kind \notin {"Flatten", "Reshape"} )
    => net.call.raised # "RecursionError"

-----------------------------------------------------------------------------
(* generate_weights                                                        *)

\* the strategy names callers pass, in and outside the mapping
Keys == {"random", "xavier", "he", "glorot", "Random"}

\* a slip in the lookup: every name is taken to be in the mapping
KnownStrategyAny(key) == TRUE

\* LAYER_INTIALIZATIONS = {"random": ..., "xavier": ..., "he": ...} has the key
KnownStrategy(key) == key \in {"random", "xavier", "he"}

\* the largest r in lo..hi with r * r <= v
RECURSIVE SqrtSearch(_, _, _)
SqrtSearch(v, lo, hi) ==
    IF lo = hi THEN lo
    ELSE LET mid == (lo + hi + 1) \div 2
         IN  IF mid * mid <= v THEN SqrtSearch(v, mid, hi) ELSE SqrtSearch(v, lo, mid - 1)

\* np.sqrt of a float no larger than 4
FSqrt(v) == SqrtSearch(v * Scale, 0, 2 * Scale)

\* the arithmetic an initialization strategy does on the random weights
ScaledWeights(key, w, fan_in, fan_out) ==
    LET xavier == FSqrt(FDiv(6 * Scale, (fan_in + fan_out) * Scale))
        he == FSqrt(FDiv(2 * Scale, fan_in * Scale))
    IN  IF key = "xavier"
        THEN [w EXCEPT !.data = [q \in 1..Len(w.data) |->
                                    FMul(2 * w.data[q] - Scale, xavier)]]
        ELSE IF key = "he"
        THEN [w EXCEPT !.data = [q \in 1..Len(w.data) |-> FMul(w.data[q], he)]]
        ELSE w

\* the biases a strategy returns: random ones for "random", zeros for the others
StrategyBiases(key, n, seed) ==
    IF key \in {"xavier", "he"} THEN ZerosArray(n) ELSE RandomArray(<<n>>, seed + 1)

\* Layer.generate_weights, which every layer but Conv2D inherits
LayerGenerateWeights(layers, index, key, seed) ==
    LET pos == PyIndex(Len(layers), index)
        prev == OutputShape(layers, index - 1, 1)
        self == prev.layers[pos]
        previous_units == prev.value.dims[1]
        units == self.units.dims[1]
    IN  IF prev.raised # "none" THEN prev
        ELSE IF ~KnownStrategy(key) THEN Raise("KeyError", prev.layers)
        ELSE IF self.units = NoShape THEN Raise("AttributeError", prev.layers)
        ELSE IF prev.value.kind = "tuple" THEN Raise("TypeError", prev.layers)
        ELSE IF previous_units < 0 THEN Raise("ValueError", prev.layers)
        ELSE IF key = "he" /\ previous_units = 0 /\ prev.value.kind = "int"
        THEN Raise("ZeroDivisionError", prev.layers)
        ELSE Return(NoShape, [prev.layers EXCEPT
                ![pos].weights = ScaledWeights(key,
                                    RandomArray(<<previous_units, units>>, seed),
                                    previous_units, units),
                ![pos].biases = StrategyBiases(key, units, seed)])

\* Conv2D.generate_weights
Conv2DGenerateWeights(layers, index, key, seed) ==
    LET pos == PyIndex(Len(layers), index)
        prev == OutputShape(layers, index - 1, 1)
        self == prev.layers[pos]
        input_shape == prev.value
        channels == input_shape.dims[Len(input_shape.dims)]
        weights == <<self.kernel_size[1], self.kernel_size[2], channels,
                     self.number_of_filters>>
        fan_in == channels * self.kernel_size[1] * self.kernel_size[2]
    IN  IF prev.raised # "none" THEN prev
        ELSE IF input_shape.kind = "int" THEN Raise("TypeError", prev.layers)
        ELSE IF input_shape.kind = "np.int" \/ input_shape.dims = << >>
        THEN Raise("IndexError", prev.layers)
        ELSE IF ~KnownStrategy(key) THEN Raise("KeyError", prev.layers)
        ELSE IF \E q \in 1..4 : weights[q] < 0 THEN Raise("ValueError", prev.layers)
        ELSE IF key = "he" /\ fan_in = 0 THEN Raise("ZeroDivisionError", prev.layers)
        ELSE Return(NoShape, [prev.layers EXCEPT
                ![pos].weights = ScaledWeights(key, RandomArray(weights, seed),
                                               fan_in, self.number_of_filters),
                ![pos].biases = StrategyBiases(key, self.number_of_filters, seed)])

\* layers[index].generate_weights(layers, index, key, dtype)
GenerateWeights(layers, index, key, seed) ==
    IF layers[PyIndex(Len(layers), index)].kind = "Conv2D"
    THEN Conv2DGenerateWeights(layers, index, key, seed)
    ELSE LayerGenerateWeights(layers, index, key, seed)

\* the layers that follow the Input layer in the lists weights are generated for
HiddenChoices ==
    { NewDense(units) : units \in 1..MaxUnits }
    \cup { NewFlatten, NewReshape(<<MaxLen, 1>>), NewMaxPool1D(2, 2),
           NewMaxPool2D(<<2, 2>>, <<2, 2>>), NewConv2D(1, <<2, 2>>, <<1, 1>>),
           NewDropout(MaxUnits, Scale \div 5), NewConv1D(MaxFilters, 2, 1) }

GenLists ==
    { <<first>> \o rest : first \in { NewInput(input_shape) : input_shape \in InputShapes },
                          rest \in UNION { [1..n -> HiddenChoices] : n \in 1..(MaxLayers - 1) } }

\* generate_weights called on a layer after the Input layer; a list sees at most
\* two calls, the second one finding what the first one left
NetGenerateWeights ==
    /\ net.pc \in {"built", "generated"}
    /\ \E index \in 1..(Len(net.layers) - 1), key \in Keys :
          LET r == GenerateWeights(net.layers, index, key,
                                   IF net.pc = "built" THEN 1 ELSE 2)
          IN  net' = [net EXCEPT !.pc = IF net.pc = "built" THEN "generated" ELSE "done",
                                 !.layers = r.layers,
                                 !.before = net.layers,
                                 !.call = [op |-> "generate_weights", index |-> index,
                                           key |-> key, raised |-> r.raised,
                                           value |-> NoShape]]
    /\ UNCHANGED <<pool1, pool2, conv2, conv1, opt, train, blayer, pair>>

InitGenerateWeights ==
    /\ InitOthersIdle
    /\ InitPool1Idle /\ InitPool2Idle /\ InitConv2Idle /\ InitConv1Idle /\ InitOptIdle
    /\ \E layers \in GenLists : net = NewNet(layers)

NextGenerateWeights == NetGenerateWeights

SpecGenerateWeights == InitGenerateWeights /\ [][NextGenerateWeights]_vars

\* C10: generate_weights with a strategy key outside {random, xavier, he} fails with
\* an error and leaves the weights and biases of the layer as they were before the
\* call; with a key of the set it never fails with the unknown-key error.
C10_UnknownStrategyFails ==
    net.call.op = "generate_weights" =>
        LET pos == net.call.index + 1
        IN  /\ net.call.key \notin {"random", "xavier", "he"} =>
                /\ net.call.raised # "none"
                /\ net.layers[pos].weights = net.before[pos].weights
                /\ net.layers[pos].biases = net.before[pos].biases
            /\ net.call.key \in {"random", "xavier", "he"} => net.call.raised # "KeyError"

\* C10 witness: a Dense layer that holds generated weights is asked to generate
\* them again under an unknown key, and the lookup of the key raises
C10_Witness ==
    /\ net.pc = "done"
    /\ net.call.op = "generate_weights"
    /\ net.call.key = "glorot"
    /\ net.call.raised = "KeyError"
    /\ net.layers[net.call.index + 1].kind = "Dense"
    /\ net.layers[net.call.index + 1].weights.shape = <<MaxLen, MaxUnits>>
    /\ net.layers[net.call.index + 1].biases.shape = <<MaxUnits>>

NonTrainable == {"Flatten", "Reshape", "MaxPool1D", "MaxPool2D"}

\* C20: generate_weights called under a strategy of the mapping on a Flatten,
\* Reshape, MaxPool1D or MaxPool2D layer whose predecessor reports its output shape
\* returns without error and leaves the layer with empty weights and biases.
C20_NonTrainableGenerateIsNoOp ==
    ( /\ net.call.op = "generate_weights"
      /\ net.call.key \in {"random", "xavier", "he"}
      /\ net.before[net.call.index + 1].kind \in NonTrainable
      /\ OutputShape(net.before, net.call.index - 1, 1).raised = "none" )
    => /\ net.call.raised = "none"
       /\ net.layers[net.call.index + 1].weights = EmptyArray
       /\ net.layers[net.call.index + 1].biases = EmptyArray

-----------------------------------------------------------------------------
(* Forward and backward pass through Input, Flatten and Dense              *)

\* a 2-D array as the rows the optimizer model works on, and back
ToNested2(arr) ==
    [r \in 1..arr.shape[1] |-> [c \in 1..arr.shape[2] |->
        arr.data[(r - 1) * arr.shape[2] + c]]]

FromNested2(a) ==
    [ shape |-> Shape2(a),
      data |-> [q \in 1..Size2(a) |-> a[((q - 1) \div Cols(a)) + 1][((q - 1) % Cols(a)) + 1]] ]

\* activation.compute_derivative of relu, on one element
ActivationDerivative(v) == IF v > 0 THEN Scale ELSE 0

\* Input.__call__: the layer, with inputs and outputs stored, and what it returns
InputCall(self, x) ==
    LET out == [x EXCEPT !.data = [q \in 1..Len(x.data) |-> x.data[q] + self.biases.data[q]]]
    IN  [layer |-> [self EXCEPT !.inputs = x, !.outputs = out], value |-> out]

\* Flatten.__call__: original_shape = x.shape, return np.ravel(x)
FlattenCall(self, x) ==
    [ layer |-> [self EXCEPT !.original_shape = TupleShape(x.shape)],
      value |-> [shape |-> <<Len(x.data)>>, data |-> x.data] ]

\* Layer.__call__ on a 1-D x: weighted_sum = np.dot(x, weights) + biases,
\* outputs = np.array([output, weighted_sum])
DenseCall(self, x) ==
    LET n == self.weights.shape[1]
        units == self.weights.shape[2]
        weighted_sum == [j \in 1..units |->
            SeqSum([i \in 1..n |-> FMul(x.data[i], self.weights.data[(i - 1) * units + j])])
            + self.biases.data[j]]
        output == [j \in 1..units |-> Activation(weighted_sum[j])]
    IN  [ layer |-> [self EXCEPT !.inputs = x,
                                 !.outputs = [shape |-> <<2, units>>,
                                              data |-> output \o weighted_sum]],
          value |-> [shape |-> <<units>>, data |-> output] ]

\* a slip in the returned gradient: one entry per input, np.dot(weights, delta) for
\* a delta that is a vector of equal entries
DenseOutputGradientVector(delta, weights) ==
    [ shape |-> <<Len(weights)>>,
      data |-> [i \in 1..Len(weights) |->
                    SeqSum([j \in 1..Cols(weights) |-> FMul(delta, weights[i][j])])] ]

\* np.dot(delta, self.weights.T) for the scalar delta: the transposed weights, scaled
DenseOutputGradient(delta, weights) ==
    [ shape |-> <<Cols(weights), Len(weights)>>,
      data |-> [q \in 1..Size2(weights) |->
                    FMul(delta, weights[((q - 1) % Len(weights)) + 1]
                                       [((q - 1) \div Len(weights)) + 1])] ]

\* delta of Dense.backpropagate: np.average over the whole list
\* [gradient * activation.compute_derivative(output) for output in self.outputs],
\* a scalar
DenseDelta(self, gradient) ==
    LET units == self.outputs.shape[2]
        products == [q \in 1..(2 * units) |->
            FMul(gradient.data[((q - 1) % units) + 1],
                 ActivationDerivative(self.outputs.data[q]))]
    IN  SeqSum(products) \div (2 * units)

\* Dense.backpropagate(gradient, optimizer) without a regulizer, for a gradient with
\* one entry per unit: the layer and optimizer[0] afterwards and the gradient returned
DenseBackpropagate(self, gradient, optimizer) ==
    LET delta == DenseDelta(self, gradient)
        \* np.outer(self.inputs, delta)
        weights_gradients == [i \in 1..Len(self.inputs.data) |->
                                <<FMul(self.inputs.data[i], delta)>>]
        applied == ApplyUpdateOn(ApplyEnterOn(optimizer, weights_gradients, <<delta>>,
                                              ToNested2(self.weights), self.biases.data))
    IN  IF applied.raised # "none"
        \* the parameters are updated in place, so an update made before the raise stays
        THEN [ layer |-> [self EXCEPT !.weights = FromNested2(applied.weights)],
               optimizer |-> applied, raised |-> applied.raised, value |-> NoArray ]
        ELSE [ layer |-> [self EXCEPT !.weights = FromNested2(applied.weights),
                                      !.biases = [shape |-> <<Len(applied.biases)>>,
                                                  data |-> applied.biases]],
               optimizer |-> applied, raised |-> "none",
               value |-> DenseOutputGradient(delta, applied.weights) ]

\* Flatten.backpropagate: gradient.reshape(self.next_layer_shape, *self.original_shape),
\* and the gradient as it came when that raises
FlattenBackpropagate(self, gradient) ==
    LET target == self.next_layer_shape.dims \o self.original_shape.dims
    IN  IF /\ self.next_layer_shape.kind \in {"int", "np.int"}
           /\ self.original_shape.kind = "tuple"
           /\ Prod(target) = Len(gradient.data)
        THEN [shape |-> target, data |-> gradient.data]
        ELSE gradient

\* output_shape asked of every layer of the list, first to last
RECURSIVE InferShapes(_, _)
InferShapes(layers, index) ==
    IF index = Len(layers) THEN Return(NoShape, layers)
    ELSE LET r == OutputShape(layers, index, 1)
         IN  IF r.raised # "none" THEN r ELSE InferShapes(r.layers, index + 1)

\* the pre-flatten shapes S: one, two and three axes
FlattenShapes ==
    { <<a>> : a \in 1..MaxRows }
    \cup { <<a, b>> : a \in 1..MaxRows, b \in 1..MaxCols }
    \cup { <<a, b, c>> : a \in 1..MaxRows, b \in 1..MaxCols, c \in 1..MaxChannels }

\* an input of the given shape whose entries differ from position to position
XArray(shape, v) ==
    [shape |-> shape, data |-> [q \in 1..Prod(shape) |-> (((q + v) % 3) + 1) * (Scale \div 4)]]

\* the list [Input(S), Flatten, Dense(units)] and the optimizer of the model
InitFlattenDense ==
    /\ InitOthersIdle
    /\ InitPool1Idle /\ InitPool2Idle /\ InitConv2Idle /\ InitConv1Idle
    /\ InitOpt
    /\ \E S \in FlattenShapes, units \in 1..MaxUnits :
          net = NewNet(<<NewInput(TupleShape(S)), NewFlatten, NewDense(units)>>)

\* shape inference over the list
FdInferShapes ==
    /\ net.pc = "built"
    /\ LET r == InferShapes(net.layers, 0)
       IN  net' = [net EXCEPT !.pc = IF r.raised = "none" THEN "inferred" ELSE "failed",
                              !.layers = r.layers]
    /\ UNCHANGED <<pool1, pool2, conv2, conv1, opt, train, blayer, pair>>

\* generate_weights on the Dense layer, under a strategy of the mapping
FdGenerateWeights ==
    /\ net.pc = "inferred"
    /\ \E key \in {"random", "xavier", "he"} :
          LET r == GenerateWeights(net.layers, 2, key, 1)
          IN  net' = [net EXCEPT !.pc = IF r.raised = "none" THEN "ready" ELSE "failed",
                                 !.layers = r.layers]
    /\ UNCHANGED <<pool1, pool2, conv2, conv1, opt, train, blayer, pair>>

\* the forward pass, layer by layer: Input
FdInputCall ==
    /\ net.pc = "ready"
    /\ \E v \in 0..1 :
          LET r == InputCall(net.layers[1], XArray(net.layers[1].input_shape.dims, v))
          IN  net' = [net EXCEPT !.pc = "input", !.layers[1] = r.layer, !.x = r.value]
    /\ UNCHANGED <<pool1, pool2, conv2, conv1, opt, train, blayer, pair>>

\* Flatten
FdFlattenCall ==
    /\ net.pc = "input"
    /\ LET r == FlattenCall(net.layers[2], net.x)
       IN  net' = [net EXCEPT !.pc = "flattened", !.layers[2] = r.layer, !.x = r.value]
    /\ UNCHANGED <<pool1, pool2, conv2, conv1, opt, train, blayer, pair>>

\* Dense
FdDenseCall ==
    /\ net.pc = "flattened"
    /\ LET r == DenseCall(net.layers[3], net.x)
       IN  net' = [net EXCEPT !.pc = "forward", !.layers[3] = r.layer, !.x = r.value]
    /\ UNCHANGED <<pool1, pool2, conv2, conv1, opt, train, blayer, pair>>

\* the backward pass: Dense.backpropagate with the gradient of the loss
FdDenseBackpropagate ==
    /\ net.pc = "forward"
    /\ \E sign \in {-1, 1} :
          LET units == net.layers[3].units.dims[1]
              r == DenseBackpropagate(net.layers[3],
                        [shape |-> <<units>>, data |-> GradB(units, sign)], opt)
          IN  /\ net' = [net EXCEPT !.pc = IF r.raised = "none" THEN "dense_back"
                                                                ELSE "failed",
                                    !.layers[3] = r.layer, !.gradient = r.value,
                                    !.before = net.layers,
                                    !.incoming = [shape |-> <<units>>,
                                                  data |-> GradB(units, sign)]]
              /\ opt' = r.optimizer
    /\ UNCHANGED <<pool1, pool2, conv2, conv1, train, blayer, pair>>

\* Flatten.backpropagate with the gradient Dense.backpropagate returned
FdFlattenBackpropagate ==
    /\ net.pc = "dense_back"
    /\ net' = [net EXCEPT !.pc = "done",
                          !.gradient = FlattenBackpropagate(net.layers[2], net.gradient)]
    /\ UNCHANGED <<pool1, pool2, conv2, conv1, opt, train, blayer, pair>>

NextFlattenDense ==
    \/ FdInferShapes \/ FdGenerateWeights
    \/ FdInputCall \/ FdFlattenCall \/ FdDenseCall
    \/ FdDenseBackpropagate \/ FdFlattenBackpropagate

SpecFlattenDense == InitFlattenDense /\ [][NextFlattenDense]_vars

-----------------------------------------------------------------------------
(* The gradient a trainable layer hands back                                *)

\* C11: the gradient Dense.backpropagate returns is delta times the transpose of the
\* weights the layer held before the optimizer update of that call, not of the
\* weights stored after the update.
C11_GradientFromPreUpdateWeights ==
    net.pc = "dense_back" =>
        net.gradient = DenseOutputGradient(DenseDelta(net.before[3], net.incoming),
                                           ToNested2(net.before[3].weights))

-----------------------------------------------------------------------------
(* NN.train: the loop over epochs, batches and layers                       *)
(* Gradients are named by integers: what matters here is which value goes   *)
(* where, not the arithmetic of a layer.                                    *)

MaxSamples == 3
MaxBatch == 2
MaxEpochs == 2

\* a slip in the backward loop: the layers are visited first to last
BackwardOrderForward(n) == [k \in 1..(n - 1) |-> k]

\* reversed(range(1, len(self.layers))): the layer indices of the backward loop
BackwardOrder(n) == [k \in 1..(n - 1) |-> n - k]

\* self.lossFunction.computeDerivative(y[batch:batch+batchSize], yPred): a value of
\* its own for every batch of every epoch
LossDerivative(epoch, batch, nX) == 1 + epoch * nX + batch

\* what self.layers[i].backpropagate(loss, ...) returns: a value that tells the
\* layer and the gradient it was given
Returned(i, loss) == loss * (MaxLayers + 2) * (MaxEpochs + 1) * (MaxSamples + 1) + i

\* NN.train(X, y, epochs, batchSize) about to run on a model of nlayers layers
NewTrain(nlayers, nX, nY, epochs, batchSize) ==
    [ pc |-> "called", nlayers |-> nlayers, nX |-> nX, nY |-> nY,
      epochs |-> epochs, batchSize |-> batchSize,
      epoch |-> 0, batch |-> 0, k |-> 0, loss |-> 0, derivative |-> 0,
      \* the backpropagate calls of the batch in hand, and the batches completed
      calls |-> << >>, batches |-> 0, raised |-> "none" ]

InitTrain ==
    \E nlayers \in 1..MaxLayers, nX \in 0..MaxSamples, epochs \in 0..MaxEpochs,
       batchSize \in 0..MaxBatch :
        \E nY \in {nX, nX + 1} : train = NewTrain(nlayers, nX, nY, epochs, batchSize)

\* lines 106-112: the two checks; raise "..." of a string is itself a TypeError
TrainEnter ==
    /\ train.pc = "called"
    /\ train' = IF train.nX # train.nY \/ train.batchSize > train.nX
                THEN [train EXCEPT !.pc = "raised", !.raised = "TypeError"]
                ELSE [train EXCEPT !.pc = "epoch"]
    /\ UNCHANGED <<pool1, pool2, conv2, conv1, opt, net, blayer, pair>>

\* line 113-114: the next epoch starts its loop over range(0, len(X), batchSize),
\* which raises ValueError for a step of zero; after the last epoch train returns
TrainEpoch ==
    /\ train.pc = "epoch"
    /\ train' = IF train.epoch >= train.epochs THEN [train EXCEPT !.pc = "returned"]
                ELSE IF train.batchSize = 0
                THEN [train EXCEPT !.pc = "raised", !.raised = "ValueError"]
                ELSE [train EXCEPT !.pc = "batch", !.batch = 0]
    /\ UNCHANGED <<pool1, pool2, conv2, conv1, opt, net, blayer, pair>>

\* lines 115-120: feedForward on the batch and the derivative of the loss
TrainForward ==
    /\ train.pc = "batch"
    /\ train.batch < train.nX
    /\ LET loss == LossDerivative(train.epoch, train.batch, train.nX)
       IN  train' = [train EXCEPT !.pc = "backward", !.loss = loss, !.derivative = loss,
                                  !.k = 1, !.calls = << >>]
    /\ UNCHANGED <<pool1, pool2, conv2, conv1, opt, net, blayer, pair>>

\* lines 123-125: one turn of the backward loop
TrainBackpropagate ==
    /\ train.pc = "backward"
    /\ train.k <= Len(BackwardOrder(train.nlayers))
    /\ LET i == BackwardOrder(train.nlayers)[train.k]
           returned == Returned(i, train.loss)
       IN  train' = [train EXCEPT !.loss = returned, !.k = train.k + 1,
                                  !.calls = Append(train.calls,
                                      [index |-> i, gradient |-> train.loss,
                                       returned |-> returned])]
    /\ UNCHANGED <<pool1, pool2, conv2, conv1, opt, net, blayer, pair>>

\* the backward loop is exhausted: on to the next batch
TrainBatchEnd ==
    /\ train.pc = "backward"
    /\ train.k > Len(BackwardOrder(train.nlayers))
    /\ train' = [train EXCEPT !.pc = "batch", !.batch = train.batch + train.batchSize,
                              !.batches = train.batches + 1]
    /\ UNCHANGED <<pool1, pool2, conv2, conv1, opt, net, blayer, pair>>

\* lines 127-128: the batches are exhausted: evaluate, and on to the next epoch
TrainEpochEnd ==
    /\ train.pc = "batch"
    /\ train.batch >= train.nX
    /\ train' = [train EXCEPT !.pc = "epoch", !.epoch = train.epoch + 1]
    /\ UNCHANGED <<pool1, pool2, conv2, conv1, opt, net, blayer, pair>>

InitTraining ==
    /\ InitPool1Idle /\ InitPool2Idle /\ InitConv2Idle /\ InitConv1Idle /\ InitOptIdle
    /\ InitNetIdle /\ InitBLayerIdle /\ InitPairIdle
    /\ InitTrain

NextTraining ==
    \/ TrainEnter \/ TrainEpoch \/ TrainForward
    \/ TrainBackpropagate \/ TrainBatchEnd \/ TrainEpochEnd

SpecTraining == InitTraining /\ [][NextTraining]_vars

\* C12: in every batch backpropagate is called on the layers in reverse order, the
\* last layer first and down to index 1, never on index 0 and on each layer once;
\* the last layer is given the loss derivative of the batch and every other layer
\* the value the layer after it returned.
C12_BackwardInReverseOrder ==
    /\ \A k \in 1..Len(train.calls) :
          /\ train.calls[k].index = train.nlayers - k
          /\ train.calls[k].index >= 1
          /\ train.calls[k].gradient = IF k = 1 THEN train.derivative
                                       ELSE train.calls[k - 1].returned
    /\ (train.pc \in {"batch", "epoch", "returned"} /\ train.batches > 0)
          => Len(train.calls) = train.nlayers - 1

\* C12 witness: the second batch of the second epoch has gone back through a model
\* of three layers
C12_Witness ==
    /\ train.pc = "batch"
    /\ train.nlayers = 3
    /\ train.epoch = 1
    /\ train.batches >= 3
    /\ Len(train.calls) = 2
    /\ train.calls[1].index = 2
    /\ train.calls[2].index = 1
    /\ train.calls[2].gradient = train.calls[1].returned

-----------------------------------------------------------------------------
(* Layer with per-batch buffers (nano_keras/layers/Layer.py)                *)
(* The layer is one with 2-D weights whose output_shape is its unit count.  *)

MaxInputs == 2

\* the inputs a forward call is given: n entries that differ between choices
ForwardInputs(n) == { [i \in 1..n |-> (i + v) * (Scale \div 4)] : v \in 0..1 }

\* a slip in the forward pass: the cursor is advanced in every mode
StoresWhenAlways(is_training) == TRUE

\* if is_training:
StoresWhen(is_training) == is_training

\* weighted_sum = np.dot(x, self.weights) + self.biases for a 1-D x
WeightedSum(x, weights, biases) ==
    [j \in 1..Cols(weights) |->
        SeqSum([i \in 1..Len(x) |-> FMul(x[i], weights[i][j])]) + biases[j]]

\* output = self.activation.apply_activation(weighted_sum)
ApplyActivation(weighted_sum) == [j \in 1..Len(weighted_sum) |-> Activation(weighted_sum[j])]

\* np.ndarray((rows, cols)): memory that has not been written
Buffer(rows, cols) == [r \in 1..rows |-> [c \in 1..cols |-> Uninit]]

\* Layer.__init__ followed by generate_weights: batch_size 1, cursor 0, no buffers yet
NewBLayer(n, units) ==
    [ pc |-> "ready", n |-> n, units |-> units,
      weights |-> ParamW(n, units), biases |-> ParamB(units),
      batch_size |-> 1, current_batch |-> 0,
      allocated |-> FALSE, inputs |-> << >>, outputs |-> << >>,
      \* the last call: its arguments, what it raised or returned, and the cursor and
      \* buffers it found
      op |-> "none", x |-> << >>, is_training |-> FALSE, raised |-> "none",
      returned |-> << >>, entry_batch |-> 0, entry_inputs |-> << >>,
      entry_outputs |-> << >> ]

InitBLayer == \E n \in 1..MaxInputs, units \in 1..MaxUnits : blayer = NewBLayer(n, units)

\* Layer.set_batch_size(batch_size, layers, index): the buffers are allocated anew,
\* the cursor is left where it is
SetBatchSizeOn(self, batch_size) ==
    [self EXCEPT !.batch_size = batch_size,
                 !.allocated = TRUE,
                 !.inputs = Buffer(batch_size, self.n),
                 !.outputs = Buffer(batch_size, self.units),
                 !.op = "set_batch_size", !.raised = "none", !.returned = << >>,
                 !.x = << >>, !.is_training = FALSE,
                 !.entry_batch = self.current_batch,
                 !.entry_inputs = self.inputs, !.entry_outputs = self.outputs]

\* Layer.__call__(x, is_training)
CallOn(self, x, is_training) ==
    LET output == ApplyActivation(WeightedSum(x, self.weights, self.biases))
        called == [self EXCEPT !.op = "call", !.x = x, !.is_training = is_training,
                               !.entry_batch = self.current_batch,
                               !.entry_inputs = self.inputs,
                               !.entry_outputs = self.outputs,
                               !.raised = "none", !.returned = output]
    IN  IF ~StoresWhen(is_training) THEN called
        \* self.inputs does not exist before set_batch_size
        ELSE IF ~self.allocated
        THEN [called EXCEPT !.raised = "AttributeError", !.returned = << >>]
        \* self.inputs[self.current_batch] = x past the last row
        ELSE IF self.current_batch >= Len(self.inputs)
        THEN [called EXCEPT !.raised = "IndexError", !.returned = << >>]
        ELSE [called EXCEPT !.inputs[self.current_batch + 1] = x,
                            !.outputs[self.current_batch + 1] = output,
                            !.current_batch = self.current_batch + 1]

BlSetBatchSize ==
    /\ blayer.pc = "ready"
    /\ \E batch_size \in 1..MaxBatch : blayer' = SetBatchSizeOn(blayer, batch_size)
    /\ UNCHANGED <<pool1, pool2, conv2, conv1, opt, net, train, pair>>

BlCall ==
    /\ blayer.pc = "ready"
    /\ \E x \in ForwardInputs(blayer.n), is_training \in BOOLEAN :
          blayer' = CallOn(blayer, x, is_training)
    /\ UNCHANGED <<pool1, pool2, conv2, conv1, opt, net, train, pair>>

InitBatchLayer ==
    /\ InitPool1Idle /\ InitPool2Idle /\ InitConv2Idle /\ InitConv1Idle /\ InitOptIdle
    /\ InitNetIdle /\ InitTrainIdle /\ InitPairIdle
    /\ InitBLayer

NextBatchLayer == BlSetBatchSize \/ BlCall

SpecBatchLayer == InitBatchLayer /\ [][NextBatchLayer]_vars

\* C13: in every state reached by set_batch_size calls and forward calls the cursor
\* current_batch lies between 0 and batch_size, and a training forward call writes
\* at an index below the first dimension of the buffers.
C13_BatchCursorWithinBatch ==
    /\ blayer.current_batch >= 0
    /\ blayer.current_batch <= blayer.batch_size
    /\ (blayer.op = "call" /\ blayer.is_training /\ blayer.allocated)
          => (blayer.raised = "none" /\ blayer.entry_batch < Len(blayer.entry_inputs))

\* C17: on a layer whose buffers are allocated, a forward call with is_training set
\* stores x and the pair [output, weighted_sum] at index current_batch of the
\* buffers and advances current_batch by exactly one; a forward call without
\* is_training returns the same output and leaves buffers and cursor unchanged.
C17_TrainingForwardStoresPair ==
    (blayer.op = "call" /\ blayer.allocated) =>
        LET weighted_sum == WeightedSum(blayer.x, blayer.weights, blayer.biases)
            output == ApplyActivation(weighted_sum)
        IN  IF blayer.is_training
            THEN /\ blayer.raised = "none"
                 /\ blayer.returned = output
                 /\ blayer.current_batch = blayer.entry_batch + 1
                 /\ blayer.inputs[blayer.entry_batch + 1] = blayer.x
                 /\ blayer.outputs[blayer.entry_batch + 1] = output \o weighted_sum
            ELSE /\ blayer.raised = "none"
                 /\ blayer.returned = output
                 /\ blayer.current_batch = blayer.entry_batch
                 /\ blayer.inputs = blayer.entry_inputs
                 /\ blayer.outputs = blayer.entry_outputs

-----------------------------------------------------------------------------
(* Two AdaMax optimizers fed the same calls                                 *)

\* the arguments of an apply_gradients call
CallArgs ==
    { [ weightGradients |-> GradW(rows, cols, 1), biasGradients |-> GradB(nb, 1),
        weights |-> ParamW(rows, cols), biases |-> ParamB(nb) ] :
      rows \in 1..MaxRows, cols \in 1..MaxCols, nb \in 1..MaxCols }

\* apply_gradients as one step: lines 41-76
ApplyGradients(o, args) ==
    ApplyUpdateOn(ApplyEnterOn(o, args.weightGradients, args.biasGradients,
                               args.weights, args.biases))

\* two optimizers built with the same learning_rate, beta1, beta2 and epsilon; log
\* holds the calls made on the first, after[1] and after[2] each optimizer as every
\* one of its calls left it, total the calls made on either
InitPair ==
    \E adjust1 \in BOOLEAN, adjust2 \in BOOLEAN :
        pair = [ pc |-> "ready", first |-> NewAdaMax(adjust1),
                 second |-> NewAdaMax(adjust2),
                 log |-> << >>, after |-> << << >>, << >> >>, total |-> 0 ]

\* a call on the first optimizer, with any arguments
PairCallFirst ==
    /\ pair.pc = "ready"
    /\ Len(pair.log) < 2
    /\ \E args \in CallArgs :
          LET o == ApplyGradients(pair.first, args)
          IN  pair' = [pair EXCEPT !.first = o, !.log = Append(pair.log, args),
                                   !.after[1] = Append(pair.after[1], o),
                                   !.total = pair.total + 1]
    /\ UNCHANGED <<pool1, pool2, conv2, conv1, opt, net, train, blayer>>

\* the second optimizer is given the next call the first one has had
PairCallSecond ==
    /\ pair.pc = "ready"
    /\ Len(pair.after[2]) < Len(pair.log)
    /\ LET o == ApplyGradients(pair.second, pair.log[Len(pair.after[2]) + 1])
       IN  pair' = [pair EXCEPT !.second = o,
                                !.after[2] = Append(pair.after[2], o),
                                !.total = pair.total + 1]
    /\ UNCHANGED <<pool1, pool2, conv2, conv1, opt, net, train, blayer>>

InitTwoOptimizers ==
    /\ InitPool1Idle /\ InitPool2Idle /\ InitConv2Idle /\ InitConv1Idle /\ InitOptIdle
    /\ InitNetIdle /\ InitTrainIdle /\ InitBLayerIdle
    /\ InitPair

NextTwoOptimizers == PairCallFirst \/ PairCallSecond

SpecTwoOptimizers == InitTwoOptimizers /\ [][NextTwoOptimizers]_vars

\* what a call left behind and gave back: the accumulators, the step, the returned
\* weights and biases and the error raised
Outcome(o) ==
    [ m_w |-> o.m_w, u_w |-> o.u_w, m_b |-> o.m_b, u_b |-> o.u_b, t |-> o.t,
      weights |-> o.weights, biases |-> o.biases, raised |-> o.raised ]

SameOutcomes ==
    \A k \in 1..Len(pair.after[2]) : Outcome(pair.after[1][k]) = Outcome(pair.after[2][k])

-----------------------------------------------------------------------------
(* Flatten.backpropagate and Reshape.backpropagate on any gradient          *)

\* Reshape.__call__: original_shape = x.shape, return np.reshape(x, target_shape),
\* which raises ValueError when the sizes differ
ReshapeCall(self, x) ==
    [ layer |-> [self EXCEPT !.original_shape = TupleShape(x.shape)],
      raised |-> IF Prod(self.target_shape.dims) = Len(x.data) THEN "none"
                 ELSE "ValueError",
      value |-> IF Prod(self.target_shape.dims) = Len(x.data)
                THEN [shape |-> self.target_shape.dims, data |-> x.data]
                ELSE NoArray ]

\* a slip in the fallback: the gradient is cut or zero-padded to the recorded size
ReshapeBackpropagateForced(self, gradient) ==
    LET target == self.next_layer_shape.dims \o self.original_shape.dims
    IN  [shape |-> target,
         data |-> [q \in 1..Prod(target) |->
                    IF q <= Len(gradient.data) THEN gradient.data[q] ELSE 0]]

\* Reshape.backpropagate: the same statements as Flatten.backpropagate
ReshapeBackpropagate(self, gradient) ==
    LET target == self.next_layer_shape.dims \o self.original_shape.dims
    IN  IF /\ self.next_layer_shape.kind \in {"int", "np.int"}
           /\ self.original_shape.kind = "tuple"
           /\ Prod(target) = Len(gradient.data)
        THEN [shape |-> target, data |-> gradient.data]
        ELSE gradient

\* the input shapes and the lists of this part: a Flatten or a Reshape behind the
\* Input layer, followed by a Dense layer or by a Reshape and a Dense layer
BackwardShapes ==
    { <<a>> : a \in 1..MaxRows } \cup { <<a, b>> : a \in 1..MaxRows, b \in 1..MaxCols }

BackwardLists ==
    { <<NewInput(TupleShape(S)), middle, NewDense(units)>> :
        S \in BackwardShapes, units \in 1..MaxUnits,
        middle \in {NewFlatten, NewReshape(<<MaxRows, 1>>), NewReshape(<<1, MaxCols>>)} }
    \cup { <<NewInput(TupleShape(S)), NewFlatten, NewReshape(<<1, 1>>), NewDense(1)>> :
        S \in BackwardShapes }

\* the gradients handed to backpropagate: every length up to the largest size
BackwardGradients == { XArray(<<n>>, 1) : n \in 1..(MaxUnits * MaxRows * MaxCols) }

\* output_shape asked of the Flatten or Reshape layer
RbOutputShape ==
    /\ net.pc = "built"
    /\ LET r == OutputShape(net.layers, 1, 1)
       IN  net' = [net EXCEPT !.pc = "inferred", !.layers = r.layers,
                              !.call = [op |-> "output_shape", index |-> 1, key |-> "",
                                        raised |-> r.raised, value |-> r.value]]
    /\ UNCHANGED <<pool1, pool2, conv2, conv1, opt, train, blayer, pair>>

\* the forward call of the Flatten or Reshape layer on an input of the Input shape
RbCall ==
    /\ net.pc \in {"built", "inferred"}
    /\ LET x == XArray(net.layers[1].input_shape.dims, 0)
           flat == FlattenCall(net.layers[2], x)
           resh == ReshapeCall(net.layers[2], x)
           isFlatten == net.layers[2].kind = "Flatten"
       IN  net' = [net EXCEPT
                    !.pc = "forward",
                    !.layers[2] = IF isFlatten THEN flat.layer ELSE resh.layer,
                    !.x = IF isFlatten THEN flat.value ELSE resh.value,
                    !.call = [op |-> "call", index |-> 1, key |-> "",
                              raised |-> IF isFlatten THEN "none" ELSE resh.raised,
                              value |-> NoShape]]
    /\ UNCHANGED <<pool1, pool2, conv2, conv1, opt, train, blayer, pair>>

\* backpropagate of the Flatten or Reshape layer, in whatever state the layer is
RbBackpropagate ==
    /\ net.pc \in {"built", "inferred", "forward"}
    /\ \E gradient \in BackwardGradients :
          net' = [net EXCEPT
                    !.pc = "back",
                    !.before = net.layers,
                    !.incoming = gradient,
                    !.gradient = IF net.layers[2].kind = "Flatten"
                                 THEN FlattenBackpropagate(net.layers[2], gradient)
                                 ELSE ReshapeBackpropagate(net.layers[2], gradient),
                    !.call = [op |-> "backpropagate", index |-> 1, key |-> "",
                              raised |-> "none", value |-> NoShape]]
    /\ UNCHANGED <<pool1, pool2, conv2, conv1, opt, train, blayer, pair>>

InitReshapeBackward ==
    /\ InitPool1Idle /\ InitPool2Idle /\ InitConv2Idle /\ InitConv1Idle /\ InitOptIdle
    /\ InitOthersIdle
    /\ \E layers \in BackwardLists : net = NewNet(layers)

NextReshapeBackward == RbOutputShape \/ RbCall \/ RbBackpropagate

SpecReshapeBackward == InitReshapeBackward /\ [][NextReshapeBackward]_vars

\* the gradient cannot be reshaped to (next_layer_shape, *original_shape): a shape
\* is missing or is a tuple, or the sizes differ
CannotReshape(self, gradient) ==
    \/ self.next_layer_shape.kind \notin {"int", "np.int"}
    \/ self.original_shape.kind # "tuple"
    \/ Prod(self.next_layer_shape.dims \o self.original_shape.dims) # Len(gradient.data)

\* C15: Flatten.backpropagate and Reshape.backpropagate never raise; when the
\* gradient cannot be reshaped to the recorded shape they return the gradient they
\* were given, same shape and same values, and they change no state of the layer.
C15_ReshapeFallsBack ==
    (net.pc = "back" /\ net.call.op = "backpropagate") =>
        /\ net.call.raised = "none"
        /\ net.layers = net.before
        /\ CannotReshape(net.before[2], net.incoming) => net.gradient = net.incoming

\* C15 witness: a Flatten that has recorded an input of two axes is handed a
\* gradient of another size and gives it back as it came
C15_Witness ==
    /\ net.pc = "back"
    /\ net.layers[2].kind = "Flatten"
    /\ net.layers[2].original_shape = TupleShape(<<MaxRows, MaxCols>>)
    /\ net.layers[2].next_layer_shape = IntShape(MaxUnits)
    /\ Len(net.incoming.data) = MaxRows * MaxCols
    /\ net.gradient = net.incoming

-----------------------------------------------------------------------------
(* Layer.backpropagate, which Input and MaxPool1D inherit                    *)

\* Layer.__init__ of the base class itself
NewLayer(units) ==
    [BaseLayer("Layer") EXCEPT !.units = IntShape(units),
                               !.weights = EmptyArray, !.biases = EmptyArray]

\* a slip: the optimizer is asked for a step although there is nothing to update
LayerBackpropagateStepping(self, gradient, optimizer) ==
    [ layer |-> self, optimizer |-> [optimizer EXCEPT !.t = @ + 1],
      raised |-> "none", value |-> gradient ]

\* Layer.backpropagate(gradient, optimizer): return gradient
LayerBackpropagate(self, gradient, optimizer) ==
    [ layer |-> self, optimizer |-> optimizer, raised |-> "none", value |-> gradient ]

\* the layers that do not override backpropagate
InheritsBackpropagate == {"Layer", "Input", "MaxPool1D"}

DefaultLists ==
    { <<NewInput(TupleShape(S)), NewMaxPool1D(MaxPool, MaxStride2), NewLayer(units)>> :
        S \in BackwardShapes, units \in 1..MaxUnits }

\* Input.__call__ on an input of the Input shape
DbInputCall ==
    /\ net.pc = "built"
    /\ LET r == InputCall(net.layers[1], XArray(net.layers[1].input_shape.dims, 0))
       IN  net' = [net EXCEPT !.pc = "forward", !.layers[1] = r.layer, !.x = r.value,
                              !.call = [op |-> "call", index |-> 0, key |-> "",
                                        raised |-> "none", value |-> NoShape]]
    /\ UNCHANGED <<pool1, pool2, conv2, conv1, opt, train, blayer, pair>>

\* backpropagate of one of the layers that inherit it
DbBackpropagate ==
    /\ net.pc \in {"built", "forward", "back"}
    /\ \E index \in 0..(Len(net.layers) - 1), gradient \in BackwardGradients :
          /\ net.layers[index + 1].kind \in InheritsBackpropagate
          /\ LET r == LayerBackpropagate(net.layers[index + 1], gradient, opt)
             IN  /\ net' = [net EXCEPT
                              !.pc = "back",
                              !.before = net.layers,
                              !.layers[index + 1] = r.layer,
                              !.incoming = gradient,
                              !.gradient = r.value,
                              !.call = [op |-> "backpropagate", index |-> index,
                                        key |-> "", raised |-> r.raised,
                                        value |-> NoShape]]
                 /\ opt' = r.optimizer
    /\ UNCHANGED <<pool1, pool2, conv2, conv1, train, blayer, pair>>

InitDefaultBackward ==
    /\ InitPool1Idle /\ InitPool2Idle /\ InitConv2Idle /\ InitConv1Idle
    /\ InitOthersIdle
    /\ \E layers \in DefaultLists : net = NewNet(layers)
    /\ \E adjust \in BOOLEAN : opt \in {NewAdaMax(adjust), UsedAdaMax(adjust)}

NextDefaultBackward == DbInputCall \/ DbBackpropagate

SpecDefaultBackward == InitDefaultBackward /\ [][NextDefaultBackward]_vars

\* C16: backpropagate of a layer without parameters of its own (Input, MaxPool1D,
\* the base Layer) returns the gradient it was given unchanged, does not raise,
\* never calls the optimizer and changes no state of the layer or of the optimizer.
C16_DefaultBackwardIsIdentity ==
    [][net'.pc = "back" =>
          /\ net'.call.raised = "none"
          /\ net'.gradient = net'.incoming
          /\ net'.layers = net.layers
          /\ opt' = opt]_vars

\* C16 witness: a MaxPool1D behind an Input that has stored a forward pass gives a
\* gradient back, next to an optimizer that holds accumulated moments
C16_Witness ==
    /\ net.pc = "back"
    /\ net.call.index = 1
    /\ net.layers[2].kind = "MaxPool1D"
    /\ net.layers[1].inputs # NoArray
    /\ Len(net.incoming.data) = MaxUnits
    /\ net.gradient = net.incoming
    /\ opt.t = 1

-----------------------------------------------------------------------------
(* Dropout.__call__ next to the forward pass Dense inherits                  *)

\* the dropout rates of the layers: none, the default 0.2, a half
DropoutRates == {0, Scale \div 5, Scale \div 2}

\* a slip in the forward pass: the weighted sum is rescaled in every mode
DropoutScalesAlways(isTraining) == TRUE

\* if isTraining:
DropoutScales(isTraining) == isTraining

\* Dropout.__call__(x, isTraining) on a 1-D x
DropoutCall(self, x, isTraining) ==
    LET n == self.weights.shape[1]
        units == self.weights.shape[2]
        \* weighted_sum = np.dot(x, self.weights) + self.biases
        dot == [j \in 1..units |->
            SeqSum([i \in 1..n |-> FMul(x.data[i], self.weights.data[(i - 1) * units + j])])
            + self.biases.data[j]]
        \* weighted_sum /= 1 - self.dropout_rate
        weighted_sum == [j \in 1..units |-> FDiv(dot[j], Scale - self.dropout_rate)]
        output == [j \in 1..units |-> Activation(weighted_sum[j])]
    IN  IF DropoutScales(isTraining)
        THEN [ layer |-> [self EXCEPT !.inputs = x,
                                      !.outputs = [shape |-> <<2, units>>,
                                                   data |-> output \o weighted_sum]],
               value |-> [shape |-> <<units>>, data |-> output] ]
        \* return super().__call__(x)
        ELSE DenseCall([self EXCEPT !.inputs = x], x)

\* the list [Input(n), Dropout(units, dropout_rate)]
InitDropout ==
    /\ InitPool1Idle /\ InitPool2Idle /\ InitConv2Idle /\ InitConv1Idle /\ InitOptIdle
    /\ InitOthersIdle
    /\ \E n \in 1..MaxRows, units \in 1..MaxUnits, dropout_rate \in DropoutRates :
          net = NewNet(<<NewInput(IntShape(n)), NewDropout(units, dropout_rate)>>)

\* generate_weights on the Dropout layer, under a strategy of the mapping
DrGenerateWeights ==
    /\ net.pc = "built"
    /\ \E key \in {"random", "xavier", "he"}, seed \in 0..1 :
          LET r == GenerateWeights(net.layers, 1, key, seed)
          IN  net' = [net EXCEPT !.pc = IF r.raised = "none" THEN "ready" ELSE "failed",
                                 !.layers = r.layers]
    /\ UNCHANGED <<pool1, pool2, conv2, conv1, opt, train, blayer, pair>>

\* a forward call of the Dropout layer in either mode; call.key records the mode
DrCall ==
    /\ net.pc \in {"ready", "forward"}
    /\ \E v \in 0..1, isTraining \in BOOLEAN :
          LET x == XArray(<<net.layers[1].input_shape.dims[1]>>, v)
              r == DropoutCall(net.layers[2], x, isTraining)
          IN  net' = [net EXCEPT
                        !.pc = "forward",
                        !.before = net.layers,
                        !.incoming = x,
                        !.layers[2] = r.layer,
                        !.x = r.value,
                        !.call = [op |-> "call", index |-> 1,
                                  key |-> IF isTraining THEN "training" ELSE "inference",
                                  raised |-> "none", value |-> NoShape]]
    /\ UNCHANGED <<pool1, pool2, conv2, conv1, opt, train, blayer, pair>>

NextDropout == DrGenerateWeights \/ DrCall

SpecDropout == InitDropout /\ [][NextDropout]_vars

\* what a Dense layer with the weights, biases and activation of the Dropout layer
\* returns and stores for the input of the last call
DenseTwin == DenseCall([net.before[2] EXCEPT !.kind = "Dense"], net.incoming)

\* the weighted sum the Dense twin stores: the second row of its outputs
DenseTwinSum ==
    LET units == net.before[2].units.dims[1]
    IN  [j \in 1..units |-> DenseTwin.layer.outputs.data[units + j]]

\* C18: a training forward call of Dropout divides the weighted sum of the Dense
\* computation by 1 - dropout_rate before the activation, and only a training call
\* does: an inference call returns, and stores, exactly what a Dense layer with the
\* same weights, biases and activation does.
C18_DropoutRescalesOnlyInTraining ==
    net.pc = "forward" =>
        LET units == net.before[2].units.dims[1]
            rescaled == [j \in 1..units |->
                            FDiv(DenseTwinSum[j], Scale - net.before[2].dropout_rate)]
        IN  IF net.call.key = "training"
            THEN /\ net.x.data = [j \in 1..units |-> Activation(rescaled[j])]
                 /\ net.layers[2].outputs.data = net.x.data \o rescaled
            ELSE /\ net.x = DenseTwin.value
                 /\ net.layers[2].outputs = DenseTwin.layer.outputs

\* C18 witness: a training call with rate one half returns another output than the
\* Dense computation on the same input
C18_Witness ==
    /\ net.pc = "forward"
    /\ net.call.key = "training"
    /\ net.before[2].dropout_rate = Scale \div 2
    /\ net.x # DenseTwin.value

(***************************************************************************)
(* backpropagate of the parametric layers with the optimizer pair           *)
(***************************************************************************)

\* a slip in the choice of the optimizer: every layer calls optimizer[0]
OptimizerIndexZero(kind) == 0

\* the position in the pair [o0, o1] of the optimizer a backpropagate calls:
\* optimizer[0] in Dense, Dropout and Conv1D, optimizer[1] in Conv2D
OptimizerIndex(kind) == IF kind = "Conv2D" THEN 1 ELSE 0

\* the pair with the optimizer at a position replaced by what its call left
WithOptimizer(optimizer, index, o) == [optimizer EXCEPT ![index + 1] = o]

\* Dense.backpropagate(gradient, optimizer) with the pair
DensePairBackpropagate(self, gradient, optimizer) ==
    LET index == OptimizerIndex(self.kind)
        r == DenseBackpropagate(self, gradient, optimizer[index + 1])
    IN  [ layer |-> r.layer, optimizer |-> WithOptimizer(optimizer, index, r.optimizer),
          raised |-> r.raised, value |-> r.value ]

\* Dropout.backpropagate(gradient, optimizer) without a regulizer: the delta of Dense
\* divided by 1/(1 - dropout_rate)
DropoutBackpropagate(self, gradient, optimizer) ==
    LET index == OptimizerIndex(self.kind)
        delta == FDiv(DenseDelta(self, gradient), FDiv(Scale, Scale - self.dropout_rate))
        weights_gradients == [i \in 1..Len(self.inputs.data) |->
                                <<FMul(self.inputs.data[i], delta)>>]
        applied == ApplyUpdateOn(ApplyEnterOn(optimizer[index + 1], weights_gradients,
                                              <<delta>>, ToNested2(self.weights),
                                              self.biases.data))
    IN  IF applied.raised # "none"
        THEN [ layer |-> [self EXCEPT !.weights = FromNested2(applied.weights)],
               optimizer |-> WithOptimizer(optimizer, index, applied),
               raised |-> applied.raised, value |-> NoArray ]
        ELSE [ layer |-> [self EXCEPT !.weights = FromNested2(applied.weights),
                                      !.biases = [shape |-> <<Len(applied.biases)>>,
                                                  data |-> applied.biases]],
               optimizer |-> WithOptimizer(optimizer, index, applied), raised |-> "none",
               value |-> DenseOutputGradient(delta, applied.weights) ]

\* apply_gradients for weight gradients whose shape differs from the shape of the
\* weights: shapes numpy cannot broadcast raise at the moment update (line 65); a
\* broadcast that is larger than the weights is assigned to the accumulators and
\* raises at the in-place update of the weights (line 71)
ApplyGradientsBroadcast(o, weightGradients, biasGradients, weights, biases) ==
    LET entered == ApplyEnterOn(o, weightGradients, biasGradients, weights, biases)
        rows == Max2(Len(weightGradients), Len(weights))
        cols == Max2(Cols(weightGradients), Cols(weights))
        widened == [entered EXCEPT
                       !.m_w = [r \in 1..rows |-> [c \in 1..cols |-> Bc2(entered.m_w, r, c)]],
                       !.u_w = [r \in 1..rows |-> [c \in 1..cols |-> Bc2(entered.u_w, r, c)]]]
    IN  IF ~(/\ Broadcastable1(Len(weightGradients), Len(weights))
             /\ Broadcastable1(Cols(weightGradients), Cols(weights)))
        THEN [entered EXCEPT !.raised = "ValueError", !.pc = "raised"]
        ELSE IF rows # Len(weights) \/ cols # Cols(weights)
        THEN [ApplyUpdateOn(widened) EXCEPT !.weights = weights, !.biases = biases,
                                            !.raised = "ValueError", !.pc = "raised"]
        ELSE ApplyUpdateOn(entered)

\* np.sum(self.inputs[i:i+k, j:j+k]) of a 2-D array, the slices clipped by numpy
SliceSum2(x, i, j, kernel_size) ==
    LET r0 == Clip(i, Len(x.a))
        r1 == Clip(i + kernel_size, Len(x.a))
        c0 == Clip(j, Len(x.a[1]))
        c1 == Clip(j + kernel_size, Len(x.a[1]))
    IN  SeqSum([r \in 1..(r1 - r0) |-> SeqSum([c \in 1..(c1 - c0) |-> x.a[r0 + r][c0 + c]])])

\* delta of Conv1D.backpropagate: np.average over [gradient * derivative(output) for
\* output in self.outputs], for a gradient of the shape of the output
Conv1DDelta(self, gradient) ==
    LET n == Len(self.outputs[1].a)
        nf == Len(self.outputs[1].a[1])
        products == [q \in 1..(2 * n * nf) |->
            LET o == ((q - 1) \div (n * nf)) + 1
                r == (((q - 1) \div nf) % n) + 1
                f == ((q - 1) % nf) + 1
            IN  FMul(gradient.a[r][f], ActivationDerivative(self.outputs[o].a[r][f]))]
    IN  SeqSum(products) \div (2 * n * nf)

\* Conv1D.backpropagate(gradient, optimizer) without a regulizer, after a forward
\* call that has returned
Conv1DBackpropagate(self, gradient, optimizer) ==
    LET index == OptimizerIndex("Conv1D")
        delta == Conv1DDelta(self, gradient)
        n == FloorDiv(SizeOf(self.inputs), self.strides)
        visited == Conv1DVisited(SizeOf(self.inputs), self.kernel_size, self.strides)
        \* np.zeros((self.inputs.size // self.strides, self.number_of_filters))
        weights_gradients ==
            [q \in 1..n |-> [f \in 1..self.number_of_filters |->
                IF (q - 1) * self.strides \in visited /\ f <= Len(self.weights)
                THEN SliceSum2(self.inputs, (q - 1) * self.strides, f - 1, self.kernel_size)
                     * delta
                ELSE 0]]
        applied == ApplyGradientsBroadcast(optimizer[index + 1], weights_gradients,
                                           <<delta>>, self.weights, self.biases)
    IN  IF applied.raised # "none"
        THEN [ layer |-> [self EXCEPT !.weights = applied.weights],
               optimizer |-> WithOptimizer(optimizer, index, applied),
               raised |-> applied.raised, value |-> NoArray ]
        ELSE [ layer |-> [self EXCEPT !.weights = applied.weights,
                                      !.biases = applied.biases],
               optimizer |-> WithOptimizer(optimizer, index, applied), raised |-> "none",
               \* np.dot(delta, self.weights.T)
               value |-> [ndim |-> 2,
                          a |-> [c \in 1..Cols(applied.weights) |->
                                    [f \in 1..Len(applied.weights) |->
                                        FMul(delta, applied.weights[f][c])]]] ]

\* self.activation.compute_derivative(t), elementwise
Derive3D(t) ==
    [ndim |-> 3,
     a |-> [i \in 1..Len(t.a) |-> [j \in 1..Len(t.a[1]) |-> [f \in 1..Len(t.a[1][1]) |->
                ActivationDerivative(t.a[i][j][f])]]]]

\* delta of Conv2D.backpropagate: np.average over [gradient * output for output in
\* self.outputs], self.outputs being the derivatives by then
Conv2DDelta(outputs, gradient) ==
    LET h == Len(outputs[1].a)
        w == Len(outputs[1].a[1])
        nf == Len(outputs[1].a[1][1])
        products == [q \in 1..(2 * h * w * nf) |->
            LET o == ((q - 1) \div (h * w * nf)) + 1
                i == (((q - 1) \div (w * nf)) % h) + 1
                j == (((q - 1) \div nf) % w) + 1
                f == ((q - 1) % nf) + 1
            IN  FMul(gradient.a[i][j][f], outputs[o].a[i][j][f])]
    IN  SeqSum(products) \div (2 * h * w * nf)

\* np.tensordot(self.inputs[data_slice], delta_array[data_slice]) over all three axes:
\* the window at (i, j) with the channels slice(0, -1), which leaves the last one out
WindowDot(x, i, j, kernel_size, delta) ==
    SeqSum([a \in 1..kernel_size[1] |-> SeqSum([b \in 1..kernel_size[2] |->
        SeqSum([c \in 1..(Len(x.a[1][1]) - 1) |-> x.a[i + a][j + b][c] * delta])])])

\* the window origins the loops of Conv2D.backpropagate reach before their break
Conv2DVisited(x, kernel_size, strides) ==
    { p \in (0..(Len(x.a) - 1)) \X (0..(Len(x.a[1]) - 1)) :
        /\ p[1] % strides[1] = 0
        /\ p[2] % strides[2] = 0
        /\ p[1] + kernel_size[1] <= Len(x.a)
        /\ p[2] + kernel_size[2] <= Len(x.a[1]) }

\* a 4-D tensor [kh, kw, channels, filters] as the rows (kh*kw*channels) by filters
\* the optimizer model works on, and back; every operation of apply_gradients is
\* elementwise
Rows4(W) ==
    LET nf == Len(W[1][1][1])
        flat == Flat4(W)
    IN  [r \in 1..(Len(flat) \div nf) |-> [f \in 1..nf |-> flat[(r - 1) * nf + f]]]

Unrows4(m, kh, kw, ch) ==
    [a \in 1..kh |-> [b \in 1..kw |-> [c \in 1..ch |->
        m[((a - 1) * kw + (b - 1)) * ch + c]]]]

\* Conv2D.backpropagate(gradient, optimizer) without a regulizer
Conv2DBackpropagate(self, gradient, optimizer) ==
    LET index == OptimizerIndex("Conv2D")
        \* self.outputs = self.activation.compute_derivative(self.outputs)
        outputs == <<Derive3D(self.outputs[1]), Derive3D(self.outputs[2])>>
        delta == Conv2DDelta(outputs, gradient)
        kh == self.kernel_size[1]
        kw == self.kernel_size[2]
        ch == Len(self.inputs.a[1][1])
        visited == Conv2DVisited(self.inputs, self.kernel_size, self.strides)
        width == Len(self.inputs.a[1])
        \* weights_gradients[:, :, :, k] += the scalar, for every k and every window
        total == SeqSum([q \in 1..(Len(self.inputs.a) * width) |->
                    LET i == (q - 1) \div width
                        j == (q - 1) % width
                    IN  IF <<i, j>> \in visited
                        THEN WindowDot(self.inputs, i, j, self.kernel_size, delta)
                        ELSE 0])
        weights_gradients == [r \in 1..(kh * kw * ch) |->
                                [f \in 1..self.number_of_filters |-> total]]
        applied == ApplyGradientsBroadcast(optimizer[index + 1], weights_gradients,
                                           <<delta>>, Rows4(self.weights), self.biases)
        stored == [self EXCEPT !.outputs = outputs,
                               !.weights = Unrows4(applied.weights, kh, kw, ch)]
    IN  IF applied.raised # "none"
        THEN [ layer |-> stored, optimizer |-> WithOptimizer(optimizer, index, applied),
               raised |-> applied.raised, value |-> NoArray ]
        ELSE [ layer |-> [stored EXCEPT !.biases = applied.biases],
               optimizer |-> WithOptimizer(optimizer, index, applied), raised |-> "none",
               \* np.dot(delta, self.inputs)
               value |-> [ndim |-> 3,
                          a |-> [i \in 1..Len(self.inputs.a) |->
                                  [j \in 1..Len(self.inputs.a[1]) |->
                                    [c \in 1..ch |-> self.inputs.a[i][j][c] * delta]]]] ]

\* the gradients the layers are handed: one entry per entry of the output
Gradient2D(n, nf) ==
    [ndim |-> 2, a |-> [q \in 1..n |-> [f \in 1..nf |-> (q + f) * (Scale \div 8)]]]

Gradient3D(h, w, nf) ==
    [ndim |-> 3,
     a |-> [i \in 1..h |-> [j \in 1..w |-> [f \in 1..nf |-> (i + j + f) * (Scale \div 8)]]]]

\* the three parametric layers of a model, each after construction: a Dense or a
\* Dropout layer behind an Input, a Conv1D and a Conv2D layer, and the optimizer pair
\* [o0, o1] every backpropagate is handed; caller, entry and raised are the layer the
\* last backpropagate call was made on, the pair as that call found it and what it
\* raised, total the number of backpropagate calls
InitBackpropagate ==
    /\ InitPool1Idle /\ InitPool2Idle /\ InitOptIdle /\ InitTrainIdle /\ InitBLayerIdle
    /\ \E units \in 1..MaxUnits :
       \E layer \in {NewDense(units), NewDropout(units, Scale \div 2)} :
          net = NewNet(<<NewInput(IntShape(MaxRows)), layer>>)
    /\ \E st \in 1..MaxStride2 :
          conv1 = [ number_of_filters |-> 2, kernel_size |-> 2, strides |-> st,
                    weights |-> [f \in 1..2 |-> [t \in 1..2 |->
                                    Weights2D(2, 2)[f][t] * (Scale \div 4)]],
                    biases |-> [f \in 1..2 |-> Biases1D(2)[f] * (Scale \div 4)],
                    prev_shape |-> TupleShape(<<2, 2>>),
                    output_shape_value |-> << >>,
                    x |-> Input2D(2, 2, 0, FALSE), pc |-> "new", raised |-> "none",
                    inputs |-> [ndim |-> 0, a |-> << >>],
                    outputs |-> << >> ]
    /\ \E ch \in 1..MaxChannels :
          conv2 = [ number_of_filters |-> MaxFilters,
                    kernel_size |-> <<2, 2>>, strides |-> <<1, 1>>,
                    weights |-> [a \in 1..2 |-> [b \in 1..2 |-> [c \in 1..ch |->
                                    [f \in 1..MaxFilters |->
                                        Weights4D(2, 2, ch, MaxFilters)[a][b][c][f]
                                        * (Scale \div 4)]]]],
                    \* the strategies return np.zeros(self.number_of_filters)
                    biases |-> Zeros1(MaxFilters),
                    prev_shape |-> <<3, 3, ch>>,
                    input_shape |-> << >>,
                    output_shape_value |-> << >>,
                    x |-> Input3D(3, 3, ch, 0), pc |-> "new",
                    inputs |-> [ndim |-> 0, a |-> << >>],
                    outputs |-> << >> ]
    /\ \E adjust \in BOOLEAN :
          pair = [ pc |-> "ready", first |-> NewAdaMax(adjust), second |-> NewAdaMax(adjust),
                   caller |-> "none", entry |-> << >>, raised |-> "none", total |-> 0 ]

\* generate_weights on the Dense or Dropout layer
BpGenerateWeights ==
    /\ net.pc = "built"
    /\ LET r == GenerateWeights(net.layers, 1, "random", 1)
       IN  net' = [net EXCEPT !.pc = IF r.raised = "none" THEN "ready" ELSE "failed",
                              !.layers = r.layers]
    /\ UNCHANGED <<pool1, pool2, conv2, conv1, opt, train, blayer, pair>>

\* the forward call of the Dense layer, the training forward call of the Dropout layer
BpCall ==
    /\ net.pc = "ready"
    /\ LET x == XArray(<<MaxRows>>, 0)
           r == IF net.layers[2].kind = "Dropout"
                THEN DropoutCall(net.layers[2], x, TRUE)
                ELSE DenseCall(net.layers[2], x)
       IN  net' = [net EXCEPT !.pc = "forward", !.layers[2] = r.layer, !.x = r.value]
    /\ UNCHANGED <<pool1, pool2, conv2, conv1, opt, train, blayer, pair>>

\* what a backpropagate call of a layer leaves in the pair
PairAfter(kind, r) ==
    [pair EXCEPT !.first = r.optimizer[1], !.second = r.optimizer[2],
                 !.caller = kind, !.entry = <<pair.first, pair.second>>,
                 !.raised = r.raised, !.total = pair.total + 1]

\* backpropagate of the Dense or Dropout layer with the pair
BpDenseBackpropagate ==
    /\ net.pc = "forward"
    /\ pair.total < MaxCalls
    /\ \E sign \in {-1, 1} :
          LET units == net.layers[2].units.dims[1]
              gradient == [shape |-> <<units>>, data |-> GradB(units, sign)]
              optimizer == <<pair.first, pair.second>>
          IN  \E r \in {IF net.layers[2].kind = "Dropout"
                        THEN DropoutBackpropagate(net.layers[2], gradient, optimizer)
                        ELSE DensePairBackpropagate(net.layers[2], gradient, optimizer)} :
                  /\ net' = [net EXCEPT !.layers[2] = r.layer, !.gradient = r.value,
                                        !.before = net.layers, !.incoming = gradient]
                  /\ pair' = PairAfter(net.layers[2].kind, r)
    /\ UNCHANGED <<pool1, pool2, conv2, conv1, opt, train, blayer>>

\* backpropagate of the Conv1D layer with the pair
BpConv1DBackpropagate ==
    /\ conv1.pc = "done"
    /\ pair.total < MaxCalls
    /\ \E r \in {Conv1DBackpropagate(conv1,
                    Gradient2D(Len(conv1.outputs[1].a), conv1.number_of_filters),
                    <<pair.first, pair.second>>)} :
           /\ conv1' = r.layer
           /\ pair' = PairAfter("Conv1D", r)
    /\ UNCHANGED <<pool1, pool2, conv2, opt, net, train, blayer>>

\* backpropagate of the Conv2D layer with the pair
BpConv2DBackpropagate ==
    /\ conv2.pc = "done"
    /\ pair.total < MaxCalls
    /\ \E r \in {Conv2DBackpropagate(conv2,
                    Gradient3D(Len(conv2.outputs[1].a), Len(conv2.outputs[1].a[1]),
                               conv2.number_of_filters),
                    <<pair.first, pair.second>>)} :
           /\ conv2' = r.layer
           /\ pair' = PairAfter("Conv2D", r)
    /\ UNCHANGED <<pool1, pool2, conv1, opt, net, train, blayer>>

NextBackpropagate ==
    \/ BpGenerateWeights \/ BpCall \/ BpDenseBackpropagate
    \/ Conv1DOutputShape \/ Conv1DCall \/ BpConv1DBackpropagate
    \/ Conv2DOutputShape \/ Conv2DCall \/ BpConv2DBackpropagate

SpecBackpropagate == InitBackpropagate /\ [][NextBackpropagate]_vars

\* the step is a backpropagate call of a layer of the kind
Backpropagates(kind) == pair'.total = pair.total + 1 /\ pair'.caller = kind

\* C27: given the pair [o0, o1], backpropagate of Dense, Dropout and Conv1D calls
\* apply_gradients exactly once on o0 (its step counter grows by one) and leaves o1 as
\* it was, backpropagate of Conv2D calls it exactly once on o1 and leaves o0 as it
\* was, and the call changes no layer but the calling one.
C27_OptimizerPairSeparation ==
    [][ /\ \A kind \in {"Dense", "Dropout", "Conv1D"} :
              Backpropagates(kind) =>
                 /\ pair'.first.t = pair.first.t + 1
                 /\ pair'.second = pair.second
        /\ Backpropagates("Conv2D") =>
              /\ pair'.second.t = pair.second.t + 1
              /\ pair'.first = pair.first
        /\ (Backpropagates("Dense") \/ Backpropagates("Dropout")) =>
              /\ conv1' = conv1
              /\ conv2' = conv2
              /\ net'.layers[1] = net.layers[1]
        /\ Backpropagates("Conv1D") => net' = net /\ conv2' = conv2
        /\ Backpropagates("Conv2D") => net' = net /\ conv1' = conv1
      ]_vars

\* C27 witness: Conv2D.backpropagate has stepped o1, which has its accumulators, after
\* a call of another layer had stepped o0, which it found and left at one step
C27_Witness ==
    /\ pair.caller = "Conv2D"
    /\ pair.entry[1].t = 1
    /\ pair.first = pair.entry[1]
    /\ pair.entry[2].t = 0
    /\ pair.second.t = 1
    /\ Size2(pair.second.m_w) > 0

\* C28: backpropagate of Dense, Dropout, Conv1D and Conv2D leaves the inputs and the
\* outputs the layer stored at its forward call as they were, so that a second call
\* derives its delta from the same stored outputs.
C28_BackpropagateKeepsForwardValues ==
    [][ /\ (Backpropagates("Dense") \/ Backpropagates("Dropout")) =>
              /\ net'.layers[2].inputs = net.layers[2].inputs
              /\ net'.layers[2].outputs = net.layers[2].outputs
        /\ Backpropagates("Conv1D") =>
              /\ conv1'.inputs = conv1.inputs
              /\ conv1'.outputs = conv1.outputs
        /\ Backpropagates("Conv2D") =>
              /\ conv2'.inputs = conv2.inputs
              /\ conv2'.outputs = conv2.outputs
      ]_vars

====
